---- MODULE Spec2Model ----
(***************************************************************************)
(* Model of the trajectory-processing and animation core of the life-map   *)
(* viewer: the trip sanitizer and timeline encoder of FlowMap, the three   *)
(* frame-callback clocks (range-scrub clock of App, trail clock of         *)
(* FlowMap, progress clock of DayReplay), the grid aggregation and the     *)
(* colour mapper of FlowMap, and the statistics of the Stats panel.        *)
(*                                                                         *)
(* Representation of numbers.  Timestamps are integers (epoch seconds).    *)
(* A TimeWindow fraction is an integer count of slider steps of 0.001, so  *)
(* 1.0 is RangeScale.  Coordinates lie on one meridian (lon = 0) and are   *)
(* counted in units of 10 m along it, so that the haversine distance of    *)
(* two points is the absolute difference of their positions; positions     *)
(* produced by interpolation are rounded down to that unit.                *)
(* A virtual timestamp is kept as an exact fraction: a numerator per point *)
(* and one denominator per path.                                           *)
(* Grid coordinates of the spatial aggregation are integers in units of    *)
(* 10^-6 degree.  The colour mapper is computed in IEEE 754 doubles, the    *)
(* Number type of the program, with exact rounding.  Distances of the      *)
(* statistics are counted in units of 10 m like those of the paths.        *)
(***************************************************************************)
EXTENDS Integers, Sequences, FiniteSets, TLC

\* ------------------------------------------------------------------ bounds
MaxTrips == 3
MaxTime == 3
MaxPts == 3
MaxEncTrips == 2
MaxEncTime == 1
\* time advances in steps of TickMs, MaxTicks times
TickMs == 24000
MaxTicks == 3
\* time advances in steps of ShortTickMs, MaxShortTicks times, where the
\* loops of the trail clock are followed
ShortTickMs == 3000
MaxShortTicks == 5
\* time advances in steps of LongTickMs, MaxLongTicks times, where the
\* range-scrub clock is followed past its completion
LongTickMs == 30000
MaxLongTicks == 4
\* points handed to the grid aggregation
MaxGridPts == 3
\* visits handed to the statistics
MaxVisits == 4

\* --------------------------------------------------------------- constants
RangeScale == 1000
\* 0.2 km, 2 km and the divisor 2 km of interpolateSegment, in units of 10 m
SplineStepDist == 20
SparseDist == 200
SegmentStepDist == 200
\* the virtual-time budget and the minimum per-trip window
LoopLength == 10000
MinTripWindow == 100

\* durations of the three clocks, in ms
AppDuration == 60000
TrailDuration == 10000
TrailDayDuration == 15000
DayDuration == 15000
\* padding of the day window, in s, and the minimum window 0.01 in slider steps
DayPadding == 3600
MinWindow == 10
\* toFixed(4) of the cell key, in units of 10^-6 degree
KeyScale == 100
\* a day in s, the longest gap in days and the longest hop (500 km) that the
\* statistics count, and a km, both in units of 10 m
DaySeconds == 86400
GapDays == 7
MaxHopDist == 50000
KmUnits == 100
\* a Number: 53 bits of mantissa, held in limbs of 14 bits
MantissaBits == 53
LimbBits == 14
LimbBase == 16384

\* inputs and outputs of the pure pipeline (sanitizer, encoder)
VARIABLES inTrips, inRange, inMeta, inReplay, outTrips, outAnimated, stage

\* App
VARIABLES phase, now, data, timeRange, animating, animationStartRange,
          animationProgress, appAnimationId, appLive, dayReplayActive, selectedDayVisits
\* FlowMap
VARIABLES tripsTime, tripsAnimationRef, trailLive
\* DayReplay
VARIABLES progress, isPaused, dayAnimationId, dayLive
\* the browser's pending frame callbacks; the command history of the claims
VARIABLES rafQueue, hist
\* history of the trail clock: it has emitted a virtual time and has been
\* Running in every state since
VARIABLES trailSteady

\* aggregateToGrid: its input points and cell size, and the cells it returned
VARIABLES points, cellSize, cells

gridVars == <<points, cellSize, cells>>
\* getTimeColor: the bounds and the timestamp it was last asked about with the
\* colour returned, and the same for the time before
VARIABLES colorBounds, colorTime, color, prevTime, prevColor

colorVars == <<colorBounds, colorTime, color, prevTime, prevColor>>
\* Stats: the visits and TimeWindow it is given and the statistics it returned
VARIABLES statsVisits, statsRange, stats

statsVars == <<statsVisits, statsRange, stats>>
calcVars == <<gridVars, colorVars, statsVars>>
tripVars == <<inTrips, inRange, inMeta, inReplay, outTrips, outAnimated, stage>>
pureVars == <<tripVars, calcVars>>
clockVars == <<phase, now, data, timeRange, animating, animationStartRange,
               animationProgress, appAnimationId, appLive, dayReplayActive, selectedDayVisits,
               tripsTime, tripsAnimationRef, trailLive,
               progress, isPaused, dayAnimationId, dayLive, rafQueue, hist, trailSteady>>
vars == <<pureVars, clockVars>>

\* ------------------------------------------------------------ small helpers
Max(a, b) == IF a >= b THEN a ELSE b
Min(a, b) == IF a <= b THEN a ELSE b
Abs(a) == IF a < 0 THEN -a ELSE a

\* JavaScript `x || 1` on a number
OrOne(x) == IF x = 0 THEN 1 ELSE x

\* a point of a raw trip path
Point(lat, t) == [coordinates |-> <<0, lat>>, timestamp |-> t]

\* position of the k-th waypoint of a path of the given shape
ShapeLat(shape, k) ==
  CASE shape = 1 -> 0
    [] shape = 2 -> 100 * (k - 1)
    [] shape = 3 -> IF k % 2 = 0 THEN 350 ELSE 0
    [] OTHER -> 700 * (k - 1)

\* a raw path of n points whose first timestamp is s and whose last is e
MakePath(s, e, n, shape) ==
  [k \in 1..n |-> Point(ShapeLat(shape, k),
                        IF k = 1 THEN s ELSE IF k = n THEN e ELSE (s + e) \div 2)]

MakeTrip(id, s, e, n, shape) == [id |-> id, path |-> MakePath(s, e, n, shape)]

\* ------------------------------------------------------------ TripSanitizer
TripStart(trip) == trip.path[1].timestamp
TripEnd(trip) == trip.path[Len(trip.path)].timestamp

\* rangeStart and rangeEnd, multiplied by RangeScale
RangeStartScaled(range, minTime, maxTime) == minTime * RangeScale + (maxTime - minTime) * range[1]
RangeEndScaled(range, minTime, maxTime) == minTime * RangeScale + (maxTime - minTime) * range[2]

\* InTimeRange without the minimum-length test
InTimeRangeAnyLength(trip, range, minTime, maxTime) ==
  /\ TripEnd(trip) * RangeScale >= RangeStartScaled(range, minTime, maxTime)
  /\ TripStart(trip) * RangeScale <= RangeEndScaled(range, minTime, maxTime)

\* the filter callback of trips.filter
InTimeRange(trip, range, minTime, maxTime) ==
  /\ Len(trip.path) >= 2
  /\ TripEnd(trip) * RangeScale >= RangeStartScaled(range, minTime, maxTime)
  /\ TripStart(trip) * RangeScale <= RangeEndScaled(range, minTime, maxTime)

TimeFiltered(trips, range, minTime, maxTime) ==
  SelectSeq(trips, LAMBDA trip : InTimeRange(trip, range, minTime, maxTime))

\* stable sort by start time
RECURSIVE InsertByStart(_, _)
InsertByStart(sorted, trip) ==
  IF sorted = <<>> THEN <<trip>>
  ELSE IF TripStart(sorted[Len(sorted)]) <= TripStart(trip) THEN Append(sorted, trip)
  ELSE Append(InsertByStart(SubSeq(sorted, 1, Len(sorted) - 1), trip), sorted[Len(sorted)])

RECURSIVE SortByStart(_)
SortByStart(trips) ==
  IF trips = <<>> THEN <<>>
  ELSE InsertByStart(SortByStart(SubSeq(trips, 1, Len(trips) - 1)), trips[Len(trips)])

TripDuration(trip) == OrOne(TripEnd(trip) - TripStart(trip))

OverlapDuration(tripA, tripB) ==
  Max(0, Min(TripEnd(tripA), TripEnd(tripB)) - Max(TripStart(tripA), TripStart(tripB)))

\* RatioOverHalf with the threshold 1 in place of 0.5
RatioOverOne(overlapDuration, duration) ==
  IF duration > 0 THEN overlapDuration > duration
  ELSE overlapDuration < duration

\* overlapDuration / duration > 0.5
RatioOverHalf(overlapDuration, duration) ==
  IF duration > 0 THEN 2 * overlapDuration > duration
  ELSE 2 * overlapDuration < duration

OverlapExceeds(tripA, tripB) ==
  \/ RatioOverHalf(OverlapDuration(tripA, tripB), TripDuration(tripA))
  \/ RatioOverHalf(OverlapDuration(tripA, tripB), TripDuration(tripB))

\* KeepsA with a strict comparison: a tie removes tripA
KeepsAStrict(tripA, tripB) == Len(tripA.path) > Len(tripB.path)

\* KeepsA with the comparison reversed: the trip with fewer points is kept
KeepsAFewer(tripA, tripB) == Len(tripA.path) <= Len(tripB.path)

\* tripA.path.length >= tripB.path.length : tripA is kept, tripB removed
KeepsA(tripA, tripB) == Len(tripA.path) >= Len(tripB.path)

\* the inner loop over j for a fixed i; yields the removed set
RECURSIVE InnerScan(_, _, _, _)
InnerScan(sorted, i, j, removed) ==
  IF j > Len(sorted) THEN removed
  ELSE IF j \in removed THEN InnerScan(sorted, i, j + 1, removed)
  ELSE IF TripStart(sorted[j]) > TripEnd(sorted[i]) THEN removed
  ELSE IF OverlapExceeds(sorted[i], sorted[j])
       THEN IF KeepsA(sorted[i], sorted[j])
            THEN InnerScan(sorted, i, j + 1, removed \cup {j})
            ELSE removed \cup {i}
       ELSE InnerScan(sorted, i, j + 1, removed)

\* the outer loop over i; yields kept
RECURSIVE OuterScan(_, _, _, _)
OuterScan(sorted, i, removed, kept) ==
  IF i > Len(sorted) THEN kept
  ELSE IF i \in removed THEN OuterScan(sorted, i + 1, removed, kept)
  ELSE LET r == InnerScan(sorted, i, i + 1, removed)
       IN OuterScan(sorted, i + 1, r, IF i \in r THEN kept ELSE Append(kept, sorted[i]))

timeFilteredTrips(trips, range, minTime, maxTime) ==
  IF Len(trips) = 0 THEN <<>>
  ELSE OuterScan(SortByStart(TimeFiltered(trips, range, minTime, maxTime)), 1, {}, <<>>)

\* ------------------------------------------------------------------ GeoMath
\* great-circle distance of two points of one meridian, in units of 10 m
haversineDistance(coord1, coord2) == Abs(coord2[2] - coord1[2])

CeilDiv(a, b) == (a + b - 1) \div b

\* one axis of the Catmull-Rom basis at t = i / numPoints
CatmullRomAxis(a0, a1, a2, a3, i, numPoints) ==
  (2 * a1 * numPoints * numPoints * numPoints
   + (a2 - a0) * i * numPoints * numPoints
   + (2 * a0 - 5 * a1 + 4 * a2 - a3) * i * i * numPoints
   + (3 * a1 - a0 - 3 * a2 + a3) * i * i * i) \div (2 * numPoints * numPoints * numPoints)

\* the numPoints + 1 points of one spline segment
catmullRomSpline(p0, p1, p2, p3, numPoints) ==
  [k \in 1..(numPoints + 1) |->
     <<CatmullRomAxis(p0[1], p1[1], p2[1], p3[1], k - 1, numPoints),
       CatmullRomAxis(p0[2], p1[2], p2[2], p3[2], k - 1, numPoints)>>]

\* ------------------------------------------------------------- PathSmoother
\* the interpolation steps of a segment without the cap of 20
SplineStepsUncapped(segDist) == Max(8, CeilDiv(segDist, SplineStepDist))

SplineSteps(segDist) == Min(20, Max(8, CeilDiv(segDist, SplineStepDist)))

\* the spline points of segment i (1-based) without the last one
SmoothSegment(pathCoords, i) ==
  LET n == Len(pathCoords)
      p0 == IF i = 1 THEN pathCoords[1] ELSE pathCoords[i - 1]
      p1 == pathCoords[i]
      p2 == pathCoords[i + 1]
      p3 == IF i + 2 > n THEN pathCoords[n] ELSE pathCoords[i + 2]
      numPoints == SplineSteps(haversineDistance(p1, p2))
      splinePoints == catmullRomSpline(p0, p1, p2, p3, numPoints)
  IN SubSeq(splinePoints, 1, Len(splinePoints) - 1)

RECURSIVE SmoothFrom(_, _)
SmoothFrom(pathCoords, i) ==
  IF i > Len(pathCoords) - 1 THEN <<pathCoords[Len(pathCoords)]>>
  ELSE SmoothSegment(pathCoords, i) \o SmoothFrom(pathCoords, i + 1)

smoothPath(pathCoords) ==
  IF Len(pathCoords) < 3 THEN pathCoords ELSE SmoothFrom(pathCoords, 1)

interpolateSegment(start, end) ==
  LET distance == haversineDistance(start, end)
      numPoints == Min(4, Max(2, CeilDiv(distance, SegmentStepDist)))
  IN [k \in 1..numPoints |->
        <<(start[1] * (numPoints - 1) + (k - 1) * (end[1] - start[1])) \div (numPoints - 1),
          (start[2] * (numPoints - 1) + (k - 1) * (end[2] - start[2])) \div (numPoints - 1)>>]

\* ---------------------------------------------------------- TimelineEncoder
RECURSIVE ConcatCoords(_)
ConcatCoords(trips) ==
  IF trips = <<>> THEN <<>>
  ELSE [k \in 1..Len(trips[1].path) |-> trips[1].path[k].coordinates] \o ConcatCoords(Tail(trips))

\* segDist of the loop that builds pathDistances, for the point k >= 2
SegDist(path, k) == haversineDistance(path[k - 1], path[k])

\* the sum of segDist over the points lo..hi, added up by halves
RECURSIVE SumDist(_, _, _)
SumDist(path, lo, hi) ==
  IF lo > hi THEN 0
  ELSE IF lo = hi THEN SegDist(path, lo)
  ELSE LET mid == (lo + hi) \div 2
       IN SumDist(path, lo, mid) + SumDist(path, mid + 1, hi)

\* cumulative distance along the first n points of a path: pathDistances
PathDistances(path, n) == [k \in 1..n |-> SumDist(path, 2, k)]

\* the single merged path of day replay; a timestamp is timestamps[k] / den
DayMergedTrip(filtered) ==
  LET sortedTrips == SortByStart(filtered)
      allCoords == ConcatCoords(sortedTrips)
  IN IF Len(allCoords) < 2
     THEN [path |-> allCoords, timestamps |-> [k \in 1..Len(allCoords) |-> (k - 1) * 100], den |-> 1]
     ELSE LET smoothedPath == smoothPath(allCoords)
              pathDistances == PathDistances(smoothedPath, Len(smoothedPath))
              totalDistance == OrOne(pathDistances[Len(pathDistances)])
          IN [path |-> smoothedPath,
              timestamps |-> [k \in 1..Len(pathDistances) |-> pathDistances[k] * LoopLength],
              den |-> totalDistance]

PointTimes(filtered) ==
  UNION {{filtered[k].path[m].timestamp : m \in 1..Len(filtered[k].path)} : k \in 1..Len(filtered)}

globalMinTime(filtered) == CHOOSE t \in PointTimes(filtered) : \A u \in PointTimes(filtered) : t <= u
globalMaxTime(filtered) == CHOOSE t \in PointTimes(filtered) : \A u \in PointTimes(filtered) : t >= u

\* the interpolated points that replace raw point i of a trip path
InterpolatedAt(path, i) ==
  IF i = 1 THEN <<path[1]>>
  ELSE LET prevPoint == path[i - 1]
           currPoint == path[i]
           distance == haversineDistance(prevPoint.coordinates, currPoint.coordinates)
       IN IF distance > SparseDist
          THEN LET interpPoints == interpolateSegment(prevPoint.coordinates, currPoint.coordinates)
               IN [j \in 1..(Len(interpPoints) - 1) |->
                     [coordinates |-> interpPoints[j + 1], timestamp |-> 0]]
          ELSE <<currPoint>>

RECURSIVE InterpolatedPath(_, _)
InterpolatedPath(path, n) ==
  IF n = 0 THEN <<>> ELSE InterpolatedPath(path, n - 1) \o InterpolatedAt(path, n)

\* tripTimeWindow without the minimum width
TripTimeWindowNoMin(trip, timeSpan) == (TripEnd(trip) - TripStart(trip)) * LoopLength

\* tripTimeWindow, multiplied by timeSpan
TripTimeWindow(trip, timeSpan) ==
  Max((TripEnd(trip) - TripStart(trip)) * LoopLength, MinTripWindow * timeSpan)

\* one trip in wall-clock mode; a timestamp is timestamps[k] / den
WallClockTrip(trip, globalMin, timeSpan) ==
  LET interpolatedPath == InterpolatedPath(trip.path, Len(trip.path))
      numSegments == Len(interpolatedPath) - 1
      startScaled == (TripStart(trip) - globalMin) * LoopLength
  IN [path |-> [k \in 1..Len(interpolatedPath) |-> interpolatedPath[k].coordinates],
      timestamps |-> [k \in 1..Len(interpolatedPath) |->
                        IF numSegments = 0 THEN startScaled
                        ELSE startScaled * numSegments + (k - 1) * TripTimeWindow(trip, timeSpan)],
      den |-> IF numSegments = 0 THEN timeSpan ELSE timeSpan * numSegments]

animatedTrips(filtered, replay) ==
  IF Len(filtered) = 0 THEN <<>>
  ELSE IF replay THEN <<DayMergedTrip(filtered)>>
  ELSE LET globalMin == globalMinTime(filtered)
           timeSpan == OrOne(globalMaxTime(filtered) - globalMin)
       IN [k \in 1..Len(filtered) |-> WallClockTrip(filtered[k], globalMin, timeSpan)]

\* ================================================================= clocks
Null == <<>>

\* the dataset of a successful load: ten days of history
DataMeta == [present |-> TRUE, minTimestamp |-> 100000, maxTimestamp |-> 964000]
DataVisits ==
  [k \in 1..12 |-> [timestamp |-> IF k <= 3 THEN 100000 + 96000 * (k - 1)
                                  ELSE IF k = 4 THEN 300000
                                  ELSE IF k = 5 THEN 320000
                                  ELSE 100000 + 96000 * (k - 3)]]
DataTrips ==
  <<[id |-> 1, path |-> <<Point(0, 110000), Point(100, 120000)>>],
    [id |-> 2, path |-> <<Point(100, 305000), Point(450, 310000), Point(100, 315000)>>],
    [id |-> 3, path |-> <<Point(100, 900000), Point(800, 950000)>>]>>
\* the visits of the one day that has more than one visit (DateSearch dayVisits)
DayVisits == <<DataVisits[4], DataVisits[5]>>
\* the timestamp of the first chapter ('Journey Begins')
ChapterTimestamps == {DataVisits[1].timestamp}
\* positions the user drags a slider handle to
SliderStops == {0, RangeScale}

EmptyData == [visits |-> <<>>, trips |-> <<>>,
              metadata |-> [present |-> FALSE, minTimestamp |-> 0, maxTimestamp |-> 0]]
FullData == [visits |-> DataVisits, trips |-> DataTrips, metadata |-> DataMeta]

\* the state as one record, so that a handler, the render that follows it and
\* the effects of that render compose
Cur ==
  [phase |-> phase, now |-> now, data |-> data, timeRange |-> timeRange,
   animating |-> animating, animationStartRange |-> animationStartRange,
   animationProgress |-> animationProgress, appAnimationId |-> appAnimationId,
   appLive |-> appLive, dayReplayActive |-> dayReplayActive,
   selectedDayVisits |-> selectedDayVisits, tripsTime |-> tripsTime,
   tripsAnimationRef |-> tripsAnimationRef, trailLive |-> trailLive,
   progress |-> progress, isPaused |-> isPaused, dayAnimationId |-> dayAnimationId,
   dayLive |-> dayLive, rafQueue |-> rafQueue]

\* ----------------------------------------------------- frame-callback queue
\* requestAnimationFrame: a handle that no pending callback of the clock has
\* and that differs from `held`, a handle some variable still holds (0 when
\* the only holder is overwritten by this very request).  Handles are
\* numbered per clock: the handles of two clocks are never compared.
FreshId(queue, clock, held) ==
  LET used == {e.id : e \in {x \in queue : x.clock = clock}} \cup {held}
  IN CHOOSE i \in 1..(Cardinality(used) + 1) :
       i \notin used /\ \A j \in 1..(i - 1) : j \in used

Callback(id, clock, startTime, startRange, duration) ==
  [id |-> id, clock |-> clock, startTime |-> startTime, startRange |-> startRange,
   duration |-> duration]

\* cancelAnimationFrame
Cancel(queue, clock, id) == {e \in queue : ~(e.clock = clock /\ e.id = id)}

\* ---------------------------------------------------------- derived values
minTimeOf(S) == S.data.metadata.minTimestamp
maxTimeOf(S) ==
  IF S.data.metadata.maxTimestamp # 0 THEN S.data.metadata.maxTimestamp ELSE S.now \div 1000

animatedTripsLength(filtered, replay) ==
  IF Len(filtered) = 0 THEN 0 ELSE IF replay THEN 1 ELSE Len(filtered)

AnimatedLen(S) ==
  animatedTripsLength(timeFilteredTrips(S.data.trips, S.timeRange, minTimeOf(S), maxTimeOf(S)),
                      S.dayReplayActive)

\* dayBounds of DayReplay: Null, or <<start, end>>
DayBounds(S) ==
  IF Len(S.selectedDayVisits) = 0 THEN Null
  ELSE <<S.selectedDayVisits[1].timestamp,
         S.selectedDayVisits[Len(S.selectedDayVisits)].timestamp>>

\* the window of the selected day, padded by an hour and clamped
DayWindow(S) ==
  LET span == maxTimeOf(S) - minTimeOf(S)
      b == DayBounds(S)
  IN <<Max(0, ((b[1] - minTimeOf(S) - DayPadding) * RangeScale) \div span),
       Min(RangeScale, ((b[2] - minTimeOf(S) + DayPadding) * RangeScale) \div span)>>

\* ------------------------------------------------------------------ effects
\* Each effect takes the previous render (old), the current render (R) and the
\* state M that the effects of this commit have built so far.

\* the cleanup of the App animation effect that cancels nothing
AppCleanupNoCancel(M) == [M EXCEPT !.appLive = FALSE, !.appAnimationId = 0]

\* cleanup of the App animation effect; animationId is local to the effect
\* and goes away with it
AppCleanup(M) ==
  IF M.appLive
  THEN [M EXCEPT !.rafQueue = IF M.appAnimationId # 0 THEN Cancel(M.rafQueue, "app", M.appAnimationId)
                              ELSE M.rafQueue,
                 !.appLive = FALSE,
                 !.appAnimationId = 0]
  ELSE M

\* startTime of the App effect that ignores the stored progress
AppStartTimeFromZero(M) == M.now

\* startTime = Date.now() - startProgress * duration
AppStartTime(M) == M.now - M.animationProgress

\* body of the App animation effect
AppBody(R, M) ==
  IF ~R.animating THEN M
  ELSE IF M.animationStartRange = Null THEN M
  ELSE LET id == FreshId(M.rafQueue, "app", 0)
       IN [M EXCEPT !.rafQueue = M.rafQueue \cup
                        {Callback(id, "app", AppStartTime(M), M.animationStartRange, AppDuration)},
                    !.appAnimationId = id,
                    !.appLive = TRUE]

AppEffect(old, R, M) ==
  IF old.animating # R.animating THEN AppBody(R, AppCleanup(M)) ELSE M

\* cleanup of the FlowMap trips animation effect
TrailCleanup(M) ==
  IF M.trailLive
  THEN [M EXCEPT !.rafQueue = IF M.tripsAnimationRef # 0
                              THEN Cancel(M.rafQueue, "trips", M.tripsAnimationRef) ELSE M.rafQueue,
                 !.trailLive = FALSE]
  ELSE M

ShouldAnimate(R) == (R.animating \/ R.dayReplayActive) /\ AnimatedLen(R) > 0

\* body of the FlowMap trips animation effect
TrailBody(R, M) ==
  IF ~ShouldAnimate(R)
  THEN IF M.tripsAnimationRef # 0
       THEN [M EXCEPT !.rafQueue = Cancel(M.rafQueue, "trips", M.tripsAnimationRef),
                      !.tripsAnimationRef = 0]
       ELSE M
  ELSE LET id == FreshId(M.rafQueue, "trips", 0)
       IN [M EXCEPT !.rafQueue = M.rafQueue \cup
                        {Callback(id, "trips", M.now, Null,
                                  IF R.dayReplayActive THEN TrailDayDuration ELSE TrailDuration)},
                    !.tripsAnimationRef = id,
                    !.trailLive = TRUE]

TrailDeps(R) == <<R.animating, R.dayReplayActive, AnimatedLen(R)>>

TrailEffect(old, R, M) ==
  IF TrailDeps(old) # TrailDeps(R) THEN TrailBody(R, TrailCleanup(M)) ELSE M

\* cleanup of the DayReplay progress effect; animationId is local to the
\* effect and goes away with it
DayCleanup(M) ==
  IF M.dayLive
  THEN [M EXCEPT !.rafQueue = IF M.dayAnimationId # 0 THEN Cancel(M.rafQueue, "day", M.dayAnimationId)
                              ELSE M.rafQueue,
                 !.dayLive = FALSE,
                 !.dayAnimationId = 0]
  ELSE M

\* body of the DayReplay progress effect
DayBody(R, M) ==
  IF ~R.dayReplayActive \/ R.isPaused \/ DayBounds(R) = Null THEN M
  ELSE LET id == FreshId(M.rafQueue, "day", 0)
       IN [M EXCEPT !.rafQueue = M.rafQueue \cup
                        {Callback(id, "day", M.now - R.progress, Null, DayDuration)},
                    !.dayAnimationId = id,
                    !.dayLive = TRUE]

DayDeps(R) == <<R.dayReplayActive, R.isPaused, DayBounds(R)>>

DayEffect(old, R, M) ==
  IF DayDeps(old) # DayDeps(R) THEN DayBody(R, DayCleanup(M)) ELSE M

\* the DayReplay effect that sets the time range to the selected day
DaySelectRuns(old, R) ==
  /\ <<old.dayReplayActive, old.selectedDayVisits, minTimeOf(old), maxTimeOf(old)>>
       # <<R.dayReplayActive, R.selectedDayVisits, minTimeOf(R), maxTimeOf(R)>>
  /\ R.dayReplayActive
  /\ DayBounds(R) # Null

\* the DayReplay effect that resets when deactivated
DayResetRuns(old, R) == old.dayReplayActive # R.dayReplayActive /\ ~R.dayReplayActive

\* the state updates that the effects of a render request
EffectUpdates(old, R, M) ==
  LET M1 == IF DaySelectRuns(old, R)
            THEN [M EXCEPT !.timeRange = DayWindow(R), !.progress = 0, !.isPaused = FALSE]
            ELSE M
  IN IF DayResetRuns(old, R) THEN [M1 EXCEPT !.progress = 0, !.isPaused = FALSE] ELSE M1

\* the effects of one render, children before the parent
RunEffects(old, R) == AppEffect(old, R, TrailEffect(old, R, DayEffect(old, R, R)))

\* a render and its effects, and the render that the effects' updates cause
Commit(old, S) ==
  LET M == RunEffects(old, S)
      R2 == EffectUpdates(old, S, M)
  IN IF R2 = M THEN M ELSE RunEffects(S, R2)

\* the trail clock is Running in the next state S and either was steady or
\* the frame that leads to S ran its callback
TrailSteady(S) ==
  /\ ShouldAnimate(S)
  /\ \/ trailSteady
     \/ S.now # now /\ \E e \in rafQueue : e.clock = "trips"

Becomes(S) ==
  /\ phase' = S.phase
  /\ now' = S.now
  /\ data' = S.data
  /\ timeRange' = S.timeRange
  /\ animating' = S.animating
  /\ animationStartRange' = S.animationStartRange
  /\ animationProgress' = S.animationProgress
  /\ appAnimationId' = S.appAnimationId
  /\ appLive' = S.appLive
  /\ dayReplayActive' = S.dayReplayActive
  /\ selectedDayVisits' = S.selectedDayVisits
  /\ tripsTime' = S.tripsTime
  /\ tripsAnimationRef' = S.tripsAnimationRef
  /\ trailLive' = S.trailLive
  /\ progress' = S.progress
  /\ isPaused' = S.isPaused
  /\ dayAnimationId' = S.dayAnimationId
  /\ dayLive' = S.dayLive
  /\ rafQueue' = S.rafQueue
  /\ trailSteady' = TrailSteady(S)

\* ------------------------------------------------------------------ history
\* hist remembers the last command given to the range-scrub clock (cmd), how
\* many frames of that clock ran since (0 or 1; after the second frame only
\* frames = 2 is kept), for a start whether it followed a stop (afterStop) and
\* the TimeWindow at the command (window), for a pause its time (since), and
\* for a resume or restart the progress (mark) and the time (at) of the
\* command and the time of the first frame after it (seen); a resume keeps
\* the time of the pause it ends.
NoHist ==
  [cmd |-> "none", afterStop |-> FALSE, frames |-> 0, mark |-> 0, at |-> 0, since |-> 0,
   seen |-> 0, window |-> Null]

Command(name, S) ==
  [cmd |-> name, afterStop |-> name = "start" /\ hist.cmd = "stop", frames |-> 0,
   mark |-> IF name \in {"resume", "restart"} THEN S.animationProgress ELSE 0,
   at |-> IF name \in {"resume", "restart"} THEN S.now ELSE 0,
   since |-> IF name = "pause" THEN S.now ELSE IF name = "resume" THEN hist.since ELSE 0,
   seen |-> 0,
   window |-> IF name = "start" THEN S.timeRange ELSE Null]

FrameSeen(time) ==
  IF hist.frames = 0 /\ hist.cmd # "none"
  THEN [hist EXCEPT !.frames = 1,
                    !.seen = IF hist.cmd \in {"resume", "restart"} THEN time ELSE 0]
  ELSE [NoHist EXCEPT !.frames = 2]

\* ----------------------------------------------------------------- App: load
ClockInit ==
  /\ phase = "loading"
  /\ now = 0
  /\ data = EmptyData
  /\ timeRange = <<0, RangeScale>>
  /\ animating = FALSE
  /\ animationStartRange = Null
  /\ animationProgress = 0
  /\ appAnimationId = 0
  /\ appLive = FALSE
  /\ dayReplayActive = FALSE
  /\ selectedDayVisits = Null
  /\ tripsTime = 0
  /\ tripsAnimationRef = 0
  /\ trailLive = FALSE
  /\ progress = 0
  /\ isPaused = FALSE
  /\ dayAnimationId = 0
  /\ dayLive = FALSE
  /\ rafQueue = {}
  /\ hist = NoHist
  /\ trailSteady = FALSE

\* loadData succeeds: setData, setLoading(false)
LoadOk ==
  /\ phase = "loading"
  /\ Becomes(Commit(Cur, [Cur EXCEPT !.data = FullData, !.phase = "ready"]))
  /\ UNCHANGED <<hist, pureVars>>

\* loadData fails: setLoading(false) in the catch
LoadFail ==
  /\ phase = "loading"
  /\ Becomes(Commit(Cur, [Cur EXCEPT !.phase = "ready"]))
  /\ UNCHANGED <<hist, pureVars>>

\* ------------------------------------------------------- App: clock commands
\* a start that records the TimeWindow whether or not a range is recorded
startAnimationAlwaysCapture(S) ==
  LET S1 == IF ~S.animating /\ Len(S.data.visits) > 0 /\ S.data.metadata.present
            THEN [S EXCEPT !.animationStartRange = S.timeRange, !.animationProgress = 0]
            ELSE S
  IN [S1 EXCEPT !.animating = TRUE]

\* a start that begins from progress 0 whenever it is pressed
startAnimationFromZero(S) ==
  LET S1 == IF ~S.animating /\ Len(S.data.visits) > 0 /\ S.data.metadata.present
               /\ S.animationStartRange = Null
            THEN [S EXCEPT !.animationStartRange = S.timeRange]
            ELSE S
  IN [S1 EXCEPT !.animating = TRUE, !.animationProgress = 0]

startAnimation(S) ==
  LET S1 == IF ~S.animating /\ Len(S.data.visits) > 0 /\ S.data.metadata.present
               /\ S.animationStartRange = Null
            THEN [S EXCEPT !.animationStartRange = S.timeRange, !.animationProgress = 0]
            ELSE S
  IN [S1 EXCEPT !.animating = TRUE]

pauseAnimation(S) == [S EXCEPT !.animating = FALSE]

restartAnimation(S) ==
  LET S1 == IF S.animationStartRange # Null
            THEN [S EXCEPT !.animationProgress = 0,
                           !.timeRange = <<S.animationStartRange[1],
                                           S.animationStartRange[1] + MinWindow>>]
            ELSE [S EXCEPT !.animationStartRange = S.timeRange, !.animationProgress = 0]
  IN [S1 EXCEPT !.animating = TRUE]

stopAnimation(S) ==
  [S EXCEPT !.animating = FALSE, !.animationStartRange = Null, !.animationProgress = 0]

\* the play button (shown while not animating)
Start ==
  /\ phase = "ready"
  /\ ~animating
  /\ Becomes(Commit(Cur, startAnimation(Cur)))
  /\ hist' = Command(IF hist.cmd = "pause" THEN "resume" ELSE "start", Cur)
  /\ UNCHANGED pureVars

\* the pause button (shown while animating)
Pause ==
  /\ phase = "ready"
  /\ animating
  /\ Becomes(Commit(Cur, pauseAnimation(Cur)))
  /\ hist' = Command("pause", Cur)
  /\ UNCHANGED pureVars

Restart ==
  /\ phase = "ready"
  /\ Becomes(Commit(Cur, restartAnimation(Cur)))
  /\ hist' = Command("restart", restartAnimation(Cur))
  /\ UNCHANGED pureVars

Stop ==
  /\ phase = "ready"
  /\ Becomes(Commit(Cur, stopAnimation(Cur)))
  /\ hist' = Command("stop", Cur)
  /\ UNCHANGED pureVars

\* ------------------------------------------------------------ frame callbacks
\* progress * duration of the animate callback, without the clamp at 1
AppProgressUnclamped(e, S) == S.now - e.startTime

\* progress * duration of the animate callback: Math.min(elapsed / duration, 1)
AppProgress(e, S) == Min(S.now - e.startTime, e.duration)

\* animate of the App effect, run for the pending callback e
AppAnimate(e, S) ==
  LET prog == AppProgress(e, S)
      rangeSpan == e.startRange[2] - e.startRange[1]
      currentEnd == e.startRange[1] + (rangeSpan * prog) \div e.duration
      S1 == [S EXCEPT !.rafQueue = S.rafQueue \ {e},
                      !.animationProgress = prog,
                      !.timeRange = <<e.startRange[1],
                                      Max(e.startRange[1] + MinWindow, currentEnd)>>]
  IN IF prog < e.duration
     THEN LET mine == S.appLive /\ S.appAnimationId = e.id
              id == FreshId(S1.rafQueue, "app", IF mine THEN 0 ELSE S.appAnimationId)
          IN [S1 EXCEPT !.rafQueue = S1.rafQueue \cup {[e EXCEPT !.id = id]},
                        !.appAnimationId = IF mine THEN id ELSE S.appAnimationId]
     ELSE [S1 EXCEPT !.animating = FALSE]

\* animate of the FlowMap trips effect
TrailAnimate(e, S) ==
  LET elapsed == S.now - e.startTime
      loopTime == ((elapsed % e.duration) * LoopLength) \div e.duration
      S1 == [S EXCEPT !.rafQueue = S.rafQueue \ {e}, !.tripsTime = loopTime]
      id == FreshId(S1.rafQueue, "trips", 0)
  IN [S1 EXCEPT !.rafQueue = S1.rafQueue \cup {[e EXCEPT !.id = id]},
                !.tripsAnimationRef = id]

\* animate of the DayReplay effect
DayAnimate(e, S) ==
  LET elapsed == S.now - e.startTime
      S1 == [S EXCEPT !.rafQueue = S.rafQueue \ {e}, !.progress = elapsed % e.duration]
      mine == S.dayLive /\ S.dayAnimationId = e.id
      id == FreshId(S1.rafQueue, "day", IF mine THEN 0 ELSE S.dayAnimationId)
  IN [S1 EXCEPT !.rafQueue = S1.rafQueue \cup {[e EXCEPT !.id = id]},
                !.dayAnimationId = IF mine THEN id ELSE S.dayAnimationId]

Animate(e, S) ==
  IF e.clock = "app" THEN AppAnimate(e, S)
  ELSE IF e.clock = "trips" THEN TrailAnimate(e, S) ELSE DayAnimate(e, S)

\* the browser runs the callbacks that were pending when the frame began
RECURSIVE RunCallbacks(_, _)
RunCallbacks(pending, S) ==
  IF pending = {} THEN S
  ELSE LET e == CHOOSE x \in pending : TRUE
       IN RunCallbacks(pending \ {e}, Animate(e, S))

\* An animation frame: time has advanced by ms, every pending callback runs,
\* and the updates they request are rendered together.
FrameAfter(ms, horizon) ==
  /\ now + ms <= horizon
  /\ LET S0 == [Cur EXCEPT !.now = now + ms]
     IN Becomes(Commit(Cur, RunCallbacks(S0.rafQueue, S0)))
  /\ hist' = IF \E e \in rafQueue : e.clock = "app" THEN FrameSeen(now + ms) ELSE hist
  /\ UNCHANGED pureVars

Frame == FrameAfter(TickMs, MaxTicks * TickMs)

\* frames at which the range-scrub clock completes and is started again
LongFrame == FrameAfter(LongTickMs, MaxLongTicks * LongTickMs)

\* frames that follow each other faster than a loop of the trail clock
ShortFrame == FrameAfter(ShortTickMs, MaxShortTicks * ShortTickMs)

\* ------------------------------------------------------------ time window
SetRangeStart ==
  /\ phase = "ready"
  /\ \E v \in SliderStops : Becomes(Commit(Cur, [Cur EXCEPT !.timeRange = <<v, Cur.timeRange[2]>>]))
  /\ UNCHANGED <<hist, pureVars>>

SetRangeEnd ==
  /\ phase = "ready"
  /\ \E v \in SliderStops : Becomes(Commit(Cur, [Cur EXCEPT !.timeRange = <<Cur.timeRange[1], v>>]))
  /\ UNCHANGED <<hist, pureVars>>

handleChapterClick(timestamp, S) ==
  IF timestamp # 0 /\ S.data.metadata.present
  THEN LET chapterProgress == ((timestamp - S.data.metadata.minTimestamp) * RangeScale)
                                \div (S.data.metadata.maxTimestamp - S.data.metadata.minTimestamp)
       IN [S EXCEPT !.timeRange = <<0, Min(chapterProgress + 50, RangeScale)>>]
  ELSE S

ChapterClick ==
  /\ phase = "ready"
  /\ Len(data.visits) >= 10
  /\ \E t \in ChapterTimestamps : Becomes(Commit(Cur, handleChapterClick(t, Cur)))
  /\ UNCHANGED <<hist, pureVars>>

\* -------------------------------------------------------------- DayReplay
\* onDayReplay of App: the replay button of DateSearch
ActivateDay ==
  /\ phase = "ready"
  /\ Len(data.visits) > 0
  /\ Becomes(Commit(Cur, [Cur EXCEPT !.selectedDayVisits = DayVisits, !.dayReplayActive = TRUE]))
  /\ UNCHANGED <<hist, pureVars>>

DayPanelShown == dayReplayActive /\ Len(selectedDayVisits) > 0

\* setIsActive(false): the close button of the panel
DeactivateDay ==
  /\ phase = "ready"
  /\ DayPanelShown
  /\ Becomes(Commit(Cur, [Cur EXCEPT !.dayReplayActive = FALSE, !.selectedDayVisits = Null]))
  /\ UNCHANGED <<hist, pureVars>>

\* the pause / play button of the panel
ToggleDayPause ==
  /\ phase = "ready"
  /\ DayPanelShown
  /\ Becomes(Commit(Cur, [Cur EXCEPT !.isPaused = ~Cur.isPaused]))
  /\ UNCHANGED <<hist, pureVars>>

\* the restart button of the panel
RestartDay ==
  /\ phase = "ready"
  /\ DayPanelShown
  /\ Becomes(Commit(Cur, [Cur EXCEPT !.progress = 0, !.isPaused = FALSE]))
  /\ UNCHANGED <<hist, pureVars>>

\* ------------------------------------------------------------------ unmount
\* the page goes away: every effect's cleanup runs
Unmount ==
  /\ phase = "ready"
  /\ Becomes([AppCleanup(TrailCleanup(DayCleanup(Cur))) EXCEPT !.phase = "unmounted"])
  /\ UNCHANGED <<hist, pureVars>>

\* ------------------------------------------------------ JavaScript numbers
\* A Number is an IEEE 754 double: NaN, an infinity, or a finite value
\* (-1)^s * m * 2^e whose mantissa m has at most MantissaBits bits.  The
\* mantissa is a natural number written in limbs of LimbBits bits, least
\* significant first, without leading zero limbs, and is kept odd (or zero)
\* so that equal values are equal records.  Every operation computes the
\* exact result and rounds it to the nearest double, ties to even.  Overflow
\* to infinity and subnormal results do not occur for the magnitudes of the
\* model (2^-200 .. 2^200) and are not modelled; zero carries no sign.

RECURSIVE Pow2(_)
Pow2(n) == IF n = 0 THEN 1 ELSE 2 * Pow2(n - 1)

Limb(a, i) == IF i <= Len(a) THEN a[i] ELSE 0

RECURSIVE BigNorm(_)
BigNorm(a) ==
  IF a = <<>> \/ a[Len(a)] # 0 THEN a ELSE BigNorm(SubSeq(a, 1, Len(a) - 1))

RECURSIVE BigOfInt(_)
BigOfInt(n) == IF n = 0 THEN <<>> ELSE <<n % LimbBase>> \o BigOfInt(n \div LimbBase)

RECURSIVE BigCmpFrom(_, _, _)
BigCmpFrom(a, b, i) ==
  IF i = 0 THEN 0
  ELSE IF a[i] < b[i] THEN -1
  ELSE IF a[i] > b[i] THEN 1
  ELSE BigCmpFrom(a, b, i - 1)

\* -1, 0 or 1 as a is below, equal to or above b
BigCmp(a, b) ==
  IF Len(a) < Len(b) THEN -1
  ELSE IF Len(a) > Len(b) THEN 1
  ELSE BigCmpFrom(a, b, Len(a))

RECURSIVE BigAddFrom(_, _, _, _)
BigAddFrom(a, b, i, carry) ==
  IF i > Len(a) /\ i > Len(b)
  THEN IF carry = 0 THEN <<>> ELSE <<carry>>
  ELSE LET sum == Limb(a, i) + Limb(b, i) + carry
       IN <<sum % LimbBase>> \o BigAddFrom(a, b, i + 1, sum \div LimbBase)

BigAdd(a, b) == BigAddFrom(a, b, 1, 0)

RECURSIVE BigSubFrom(_, _, _, _)
BigSubFrom(a, b, i, borrow) ==
  IF i > Len(a) THEN <<>>
  ELSE LET diff == a[i] - Limb(b, i) - borrow
       IN IF diff < 0
          THEN <<diff + LimbBase>> \o BigSubFrom(a, b, i + 1, 1)
          ELSE <<diff>> \o BigSubFrom(a, b, i + 1, 0)

\* a - b for a >= b
BigSub(a, b) == BigNorm(BigSubFrom(a, b, 1, 0))

RECURSIVE BigMulSmallFrom(_, _, _, _)
BigMulSmallFrom(a, k, i, carry) ==
  IF i > Len(a)
  THEN IF carry = 0 THEN <<>> ELSE <<carry>>
  ELSE LET prod == a[i] * k + carry
       IN <<prod % LimbBase>> \o BigMulSmallFrom(a, k, i + 1, prod \div LimbBase)

\* a * k for 0 <= k <= LimbBase
BigMulSmall(a, k) == IF k = 0 THEN <<>> ELSE BigMulSmallFrom(a, k, 1, 0)

ZeroLimbs(n) == [i \in 1..n |-> 0]

RECURSIVE BigMulFrom(_, _, _)
BigMulFrom(a, b, i) ==
  IF i > Len(b) THEN <<>>
  ELSE BigAdd(IF b[i] = 0 THEN <<>> ELSE ZeroLimbs(i - 1) \o BigMulSmall(a, b[i]),
              BigMulFrom(a, b, i + 1))

BigMul(a, b) == IF a = <<>> THEN <<>> ELSE BigMulFrom(a, b, 1)

\* quotient and remainder of a by a small k, from the top limb down
RECURSIVE BigDivSmallFrom(_, _, _, _)
BigDivSmallFrom(a, k, i, rem) ==
  IF i = 0 THEN [q |-> <<>>, r |-> rem]
  ELSE LET cur == rem * LimbBase + a[i]
           rest == BigDivSmallFrom(a, k, i - 1, cur % k)
       IN [q |-> Append(rest.q, cur \div k), r |-> rest.r]

BigDivSmall(a, k) ==
  LET res == BigDivSmallFrom(a, k, Len(a), 0)
  IN [q |-> BigNorm(res.q), r |-> res.r]

BigShl(a, bits) ==
  IF a = <<>> THEN <<>>
  ELSE ZeroLimbs(bits \div LimbBits) \o BigMulSmall(a, Pow2(bits % LimbBits))

BigShr(a, bits) ==
  IF Len(a) <= bits \div LimbBits THEN <<>>
  ELSE BigDivSmall(SubSeq(a, bits \div LimbBits + 1, Len(a)), Pow2(bits % LimbBits)).q

RECURSIVE SmallBitLen(_)
SmallBitLen(n) == IF n = 0 THEN 0 ELSE 1 + SmallBitLen(n \div 2)

BigBitLen(a) ==
  IF a = <<>> THEN 0 ELSE LimbBits * (Len(a) - 1) + SmallBitLen(a[Len(a)])

RECURSIVE SmallTrailingZeros(_)
SmallTrailingZeros(n) == IF n % 2 = 1 THEN 0 ELSE 1 + SmallTrailingZeros(n \div 2)

RECURSIVE BigTrailingZeros(_, _)
BigTrailingZeros(a, i) ==
  IF a[i] = 0 THEN LimbBits + BigTrailingZeros(a, i + 1)
  ELSE SmallTrailingZeros(a[i])

\* the largest digit q in lo..hi with q * b <= r, by bisection
RECURSIVE QuotientDigit(_, _, _, _)
QuotientDigit(r, b, lo, hi) ==
  IF lo = hi THEN lo
  ELSE LET mid == (lo + hi + 1) \div 2
       IN IF BigCmp(BigMulSmall(b, mid), r) <= 0
          THEN QuotientDigit(r, b, mid, hi)
          ELSE QuotientDigit(r, b, lo, mid - 1)

\* long division of a by b # 0, one limb of the quotient at a time
RECURSIVE BigDivModFrom(_, _, _, _)
BigDivModFrom(a, b, i, rem) ==
  IF i = 0 THEN [q |-> <<>>, r |-> rem]
  ELSE LET cur == BigNorm(<<a[i]>> \o rem)
           digit == QuotientDigit(cur, b, 0, LimbBase - 1)
           rest == BigDivModFrom(a, b, i - 1, BigSub(cur, BigMulSmall(b, digit)))
       IN [q |-> Append(rest.q, digit), r |-> rest.r]

BigDivMod(a, b) ==
  LET res == BigDivModFrom(a, b, Len(a), <<>>)
  IN [q |-> BigNorm(res.q), r |-> res.r]

NaN == [k |-> "nan", s |-> 0, m |-> <<>>, e |-> 0]
Infinity(s) == [k |-> "inf", s |-> s, m |-> <<>>, e |-> 0]
Zero == [k |-> "fin", s |-> 0, m |-> <<>>, e |-> 0]

IsZero(x) == x.k = "fin" /\ x.m = <<>>

\* the finite value (-1)^s * m * 2^e with its mantissa made odd
Canonical(s, m, e) ==
  IF m = <<>> THEN Zero
  ELSE LET zeros == BigTrailingZeros(m, 1)
       IN [k |-> "fin", s |-> s, m |-> BigShr(m, zeros), e |-> e + zeros]

\* rounding to MantissaBits bits, to nearest, ties to even
RoundNearestEven(s, m, e) ==
  IF BigBitLen(m) <= MantissaBits THEN Canonical(s, m, e)
  ELSE LET drop == BigBitLen(m) - MantissaBits
           kept == BigShr(m, drop)
           lost == BigSub(m, BigShl(kept, drop))
           half == BigCmp(lost, BigShl(<<1>>, drop - 1))
           up == half > 0 \/ (half = 0 /\ kept[1] % 2 = 1)
       IN Canonical(s, IF up THEN BigAdd(kept, <<1>>) ELSE kept, e + drop)

\* an integer of the model as a Number
NumOfInt(n) == Canonical(IF n < 0 THEN 1 ELSE 0, BigOfInt(Abs(n)), 0)

NumNeg(x) == IF x.k = "nan" \/ IsZero(x) THEN x ELSE [x EXCEPT !.s = 1 - @]

\* x * y
NumMul(x, y) ==
  IF x.k = "nan" \/ y.k = "nan" THEN NaN
  ELSE IF x.k = "inf" \/ y.k = "inf"
       THEN IF IsZero(x) \/ IsZero(y) THEN NaN ELSE Infinity((x.s + y.s) % 2)
       ELSE RoundNearestEven((x.s + y.s) % 2, BigMul(x.m, y.m), x.e + y.e)

\* x / y: the quotient is computed to MantissaBits + 3 bits or more and a
\* sticky bit for the remainder, then rounded
NumDiv(x, y) ==
  IF x.k = "nan" \/ y.k = "nan" THEN NaN
  ELSE IF x.k = "inf" THEN (IF y.k = "inf" THEN NaN ELSE Infinity((x.s + y.s) % 2))
  ELSE IF y.k = "inf" THEN Zero
  ELSE IF IsZero(y) THEN (IF IsZero(x) THEN NaN ELSE Infinity(x.s))
  ELSE IF IsZero(x) THEN Zero
  ELSE LET shift == Max(0, MantissaBits + 3 + BigBitLen(y.m) - BigBitLen(x.m))
           res == BigDivMod(BigShl(x.m, shift), y.m)
           sticky == IF res.r = <<>> THEN <<>> ELSE <<1>>
       IN RoundNearestEven((x.s + y.s) % 2,
                           BigAdd(BigShl(res.q, 1), sticky),
                           x.e - y.e - shift - 1)

\* x + y
NumAdd(x, y) ==
  IF x.k = "nan" \/ y.k = "nan" THEN NaN
  ELSE IF x.k = "inf"
       THEN (IF y.k = "inf" /\ y.s # x.s THEN NaN ELSE x)
  ELSE IF y.k = "inf" THEN y
  ELSE LET e == Min(x.e, y.e)
           xm == BigShl(x.m, x.e - e)
           ym == BigShl(y.m, y.e - e)
       IN IF x.s = y.s THEN RoundNearestEven(x.s, BigAdd(xm, ym), e)
          ELSE IF BigCmp(xm, ym) >= 0 THEN RoundNearestEven(x.s, BigSub(xm, ym), e)
          ELSE RoundNearestEven(y.s, BigSub(ym, xm), e)

NumSub(x, y) == NumAdd(x, NumNeg(y))

\* x < y; false when either is NaN
NumLess(x, y) ==
  IF x.k = "nan" \/ y.k = "nan" THEN FALSE
  ELSE LET d == NumSub(x, y) IN d.k # "nan" /\ ~IsZero(d) /\ d.s = 1

NumLeq(x, y) ==
  IF x.k = "nan" \/ y.k = "nan" THEN FALSE
  ELSE x = y \/ NumLess(x, y)

\* a decimal literal digits / 10^places of the source text
Literal(digits, scale) == NumDiv(NumOfInt(digits), NumOfInt(scale))

\* ------------------------------------------------ getTimeColor (FlowMap)
\* the literals 0.33, 0.66 and 0.34 of the segments
FirstBoundary == Literal(33, 100)
SecondBoundary == Literal(66, 100)
LastWidth == Literal(34, 100)

\* progress = (timestamp - minTime) / (maxTime - minTime), without a guard
ColorProgress(timestamp, minTime, maxTime) ==
  NumDiv(NumSub(NumOfInt(timestamp), NumOfInt(minTime)),
         NumSub(NumOfInt(maxTime), NumOfInt(minTime)))

\* the colour [r, g, b, a] of a timestamp, computed in Numbers as written
getTimeColor(timestamp, minTime, maxTime) ==
  LET colorProgress == ColorProgress(timestamp, minTime, maxTime)
  IN IF NumLess(colorProgress, FirstBoundary)
     THEN LET t == NumDiv(colorProgress, FirstBoundary)
          IN <<NumAdd(NumOfInt(0), NumMul(t, NumOfInt(147))),
               NumSub(NumOfInt(212), NumMul(t, NumOfInt(61))),
               NumSub(NumOfInt(255), NumMul(t, NumOfInt(42))),
               NumOfInt(230)>>
     ELSE IF NumLess(colorProgress, SecondBoundary)
     THEN LET t == NumDiv(NumSub(colorProgress, FirstBoundary), FirstBoundary)
          IN <<NumAdd(NumOfInt(147), NumMul(t, NumOfInt(108))),
               NumSub(NumOfInt(151), NumMul(t, NumOfInt(91))),
               NumSub(NumOfInt(213), NumMul(t, NumOfInt(45))),
               NumOfInt(240)>>
     ELSE LET t == NumDiv(NumSub(colorProgress, SecondBoundary), LastWidth)
          IN <<NumOfInt(255),
               NumAdd(NumOfInt(60), NumMul(t, NumOfInt(140))),
               NumSub(NumOfInt(168), NumMul(t, NumOfInt(148))),
               NumOfInt(250)>>

\* ------------------------------------------------------- Stats (Legend)
\* A visit is [hasCoordinates, coordinates, timestamp], its position on the
\* meridian counted in units of 10 m like the points of a path.
MakeVisit(lat, t) == [hasCoordinates |-> TRUE, coordinates |-> <<0, lat>>, timestamp |-> t]

\* filter(v => v.timestamp >= rangeStart && v.timestamp <= rangeEnd)
StatsFiltered(visits, range, metadata) ==
  SelectSeq(visits, LAMBDA v :
    /\ v.timestamp * RangeScale >=
         RangeStartScaled(range, metadata.minTimestamp, metadata.maxTimestamp)
    /\ v.timestamp * RangeScale <=
         RangeEndScaled(range, metadata.minTimestamp, metadata.maxTimestamp))

\* sort((a, b) => a.timestamp - b.timestamp): stable
RECURSIVE InsertByTimestamp(_, _)
InsertByTimestamp(sorted, visit) ==
  IF sorted = <<>> THEN <<visit>>
  ELSE IF sorted[Len(sorted)].timestamp <= visit.timestamp THEN Append(sorted, visit)
  ELSE Append(InsertByTimestamp(SubSeq(sorted, 1, Len(sorted) - 1), visit),
              sorted[Len(sorted)])

RECURSIVE SortByTimestamp(_)
SortByTimestamp(visits) ==
  IF visits = <<>> THEN <<>>
  ELSE InsertByTimestamp(SortByTimestamp(SubSeq(visits, 1, Len(visits) - 1)),
                         visits[Len(visits)])

\* the pairs the loop does not skip for their gap in time
WithinGap(prev, curr) == curr.timestamp - prev.timestamp <= DaySeconds * GapDays

\* a loop that adds hops of any length
HopCountedAnyLength(prev, curr) == TRUE

\* if (dist < 500): the hop is added when it is shorter than 500 km
HopCounted(prev, curr) == haversineDistance(prev.coordinates, curr.coordinates) < MaxHopDist

\* totalKm after the iterations 1..i of the loop, in units of 10 m
RECURSIVE TotalKm(_, _)
TotalKm(filteredVisits, i) ==
  IF i < 2 THEN 0
  ELSE LET prev == filteredVisits[i - 1]
           curr == filteredVisits[i]
       IN TotalKm(filteredVisits, i - 1)
          + (IF WithinGap(prev, curr) /\ HopCounted(prev, curr)
             THEN haversineDistance(prev.coordinates, curr.coordinates)
             ELSE 0)

\* Math.round of a distance in units of 10 m to whole km
RoundKm(dist) == (dist + KmUnits \div 2) \div KmUnits

\* the stats useMemo; haversineDistance destructures both coordinates, which
\* raises a TypeError for a visit that has none
Stats(visits, range, metadata) ==
  LET filteredVisits == SortByTimestamp(StatsFiltered(visits, range, metadata))
  IN IF \E i \in 2..Len(filteredVisits) :
          /\ WithinGap(filteredVisits[i - 1], filteredVisits[i])
          /\ ~(filteredVisits[i - 1].hasCoordinates /\ filteredVisits[i].hasCoordinates)
     THEN [raised |-> TRUE, places |-> 0, kilometers |-> 0]
     ELSE [raised |-> FALSE,
           places |-> Len(filteredVisits),
           kilometers |-> RoundKm(TotalKm(filteredVisits, Len(filteredVisits)))]

\* ------------------------------------------- grid aggregation (FlowMap)
\* Grid coordinates are integers in units of 10^-6 degree and the cell sizes
\* are even, so that a cell centre floor(v / size) * size + size / 2 is an
\* integer.  A point is [hasCoordinates, coordinates, placeName, address]; an
\* address is [present, parts], parts being what split(',') returns.
MakePoint(lng, lat, placeName, address) ==
  [hasCoordinates |-> TRUE, coordinates |-> <<lng, lat>>,
   placeName |-> placeName, address |-> address]

NoAddress == [present |-> FALSE, parts |-> <<>>]
Address(parts) == [present |-> TRUE, parts |-> parts]

\* point.placeName || point.address?.split(',')[0] || 'Unknown'
PlaceLabel(point) ==
  IF point.placeName # "" THEN point.placeName
  ELSE IF point.address.present /\ Head(point.address.parts) # ""
       THEN Head(point.address.parts)
       ELSE "Unknown"

CellCentre(v, size) == (v \div size) * size + size \div 2

\* toFixed(4): sign, then the magnitude rounded to KeyScale units
ToFixed4(centre) == <<centre < 0, (Abs(centre) + KeyScale \div 2) \div KeyScale>>

CellKey(cellLng, cellLat) == <<ToFixed4(cellLng), ToFixed4(cellLat)>>

\* cell.locations[placeName] = (cell.locations[placeName] || 0) + 1, the
\* object's entries kept in insertion order
CountLocation(locations, placeName) ==
  IF \E i \in 1..Len(locations) : locations[i].name = placeName
  THEN [i \in 1..Len(locations) |->
          IF locations[i].name = placeName
          THEN [locations[i] EXCEPT !.count = @ + 1]
          ELSE locations[i]]
  ELSE Append(locations, [name |-> placeName, count |-> 1])

\* one iteration of the loop over the points
GridStep(grid, point, size) ==
  LET cellLng == CellCentre(point.coordinates[1], size)
      cellLat == CellCentre(point.coordinates[2], size)
      key == CellKey(cellLng, cellLat)
      placeName == PlaceLabel(point)
  IN IF \E i \in 1..Len(grid) : grid[i].key = key
     THEN [i \in 1..Len(grid) |->
             IF grid[i].key = key
             THEN [grid[i] EXCEPT !.count = @ + 1,
                                  !.locations = CountLocation(@, placeName)]
             ELSE grid[i]]
     ELSE Append(grid, [key |-> key,
                        position |-> <<cellLng, cellLat>>,
                        count |-> 1,
                        locations |-> <<[name |-> placeName, count |-> 1]>>])

RECURSIVE GridOf(_, _, _)
GridOf(pts, n, size) ==
  IF n = 0 THEN <<>> ELSE GridStep(GridOf(pts, n - 1, size), pts[n], size)

\* the scan without the exclusion of the placeholder label
RECURSIVE TopLocationAnyName(_, _)
TopLocationAnyName(locations, n) ==
  IF n = 0 THEN [topLocation |-> "Unknown", topCount |-> 0]
  ELSE LET top == TopLocationAnyName(locations, n - 1)
           entry == locations[n]
       IN IF entry.count > top.topCount
          THEN [topLocation |-> entry.name, topCount |-> entry.count]
          ELSE top

\* the scan for the top location over the first n entries of a cell
RECURSIVE TopLocation(_, _)
TopLocation(locations, n) ==
  IF n = 0 THEN [topLocation |-> "Unknown", topCount |-> 0]
  ELSE LET top == TopLocation(locations, n - 1)
           entry == locations[n]
       IN IF entry.count > top.topCount /\ entry.name # "Unknown"
          THEN [topLocation |-> entry.name, topCount |-> entry.count]
          ELSE top

WithTopLocation(cell) ==
  LET top == TopLocation(cell.locations, Len(cell.locations))
  IN [position |-> cell.position,
      count |-> cell.count,
      locations |-> cell.locations,
      topLocation |-> top.topLocation,
      topLocationCount |-> top.topCount,
      uniquePlaces |-> Len(cell.locations)]

\* destructuring the coordinates of a point that has none raises a TypeError
aggregateToGrid(pts, size) ==
  IF \E i \in 1..Len(pts) : ~pts[i].hasCoordinates
  THEN [raised |-> TRUE, cells |-> <<>>]
  ELSE LET grid == GridOf(pts, Len(pts), size)
       IN [raised |-> FALSE,
           cells |-> [i \in 1..Len(grid) |-> WithTopLocation(grid[i])]]

\* the cell sizes 0.015 (used by gridData), 0.02 (the default) and 0.00005
CellSizes == {15000, 20000, 50}

PointLabels ==
  {<<"Home", NoAddress>>, <<"", Address(<<"Cafe", " Toronto">>)>>, <<"", NoAddress>>}

PointPool ==
  {MakePoint(lng, lat, label[1], label[2]) :
     lng \in {-30, 10, 60, 110, 16000}, lat \in {10, 16000}, label \in PointLabels}
  \cup {MakePoint(10, 10, "", Address(<<"", " Toronto">>)),
        [hasCoordinates |-> FALSE, coordinates |-> <<>>,
         placeName |-> "Home", address |-> NoAddress]}

GridIdle ==
  /\ points = <<>>
  /\ cellSize = 15000
  /\ cells = aggregateToGrid(<<>>, 15000)

\* the colour of the first visit of a dataset that spans 0..100
IdleColor == getTimeColor(0, 0, 100)

ColorIdle ==
  /\ colorBounds = <<0, 100>>
  /\ colorTime = 0
  /\ color = IdleColor
  /\ prevTime = 0
  /\ prevColor = color

\* the harness of the statistics: a dataset of 12 days; visits on days 0, 1,
\* 2, 9 (7 days after day 2) and 12 (10 days after), 100, 200, 500, 500.4 and
\* 5000 km apart, one at a fraction of a km and one without coordinates
StatsMeta == [minTimestamp |-> 0, maxTimestamp |-> 12 * DaySeconds]

StatsWindows == {<<0, RangeScale>>, <<0, 500>>}

VisitPool ==
  {MakeVisit(0, 0),
   MakeVisit(10000, DaySeconds),
   MakeVisit(10050, DaySeconds),
   MakeVisit(30000, 2 * DaySeconds),
   MakeVisit(80040, 2 * DaySeconds),
   MakeVisit(30000, 9 * DaySeconds),
   MakeVisit(80000, 9 * DaySeconds),
   MakeVisit(530000, 12 * DaySeconds),
   [hasCoordinates |-> FALSE, coordinates |-> <<>>, timestamp |-> DaySeconds]}

StatsIdle ==
  /\ statsVisits = <<>>
  /\ statsRange = <<0, RangeScale>>
  /\ stats = Stats(<<>>, <<0, RangeScale>>, StatsMeta)

CalcIdle == GridIdle /\ ColorIdle /\ StatsIdle

PureIdle ==
  /\ inTrips = <<>>
  /\ inRange = <<0, RangeScale>>
  /\ inMeta = [minTimestamp |-> 0, maxTimestamp |-> MaxTime]
  /\ inReplay = FALSE
  /\ outTrips = <<>>
  /\ outAnimated = <<>>
  /\ stage = "input"

Init == ClockInit /\ PureIdle /\ CalcIdle

Next ==
  \/ LoadOk \/ LoadFail
  \/ Start \/ Pause \/ Restart \/ Stop
  \/ Frame
  \/ SetRangeStart \/ SetRangeEnd \/ ChapterClick
  \/ ActivateDay \/ DeactivateDay \/ ToggleDayPause \/ RestartDay
  \/ Unmount

Spec == Init /\ [][Next]_vars

\* the range-scrub clock with the controls that write the TimeWindow
ScrubNext ==
  \/ LoadOk \/ LoadFail
  \/ Start \/ Pause \/ Restart \/ Stop
  \/ Frame
  \/ SetRangeStart \/ SetRangeEnd \/ ChapterClick
  \/ Unmount

SpecScrub == Init /\ [][ScrubNext]_vars

\* the three clocks with every command that starts or ends one of them
ClocksNext ==
  \/ LoadOk \/ LoadFail
  \/ Start \/ Pause \/ Restart \/ Stop
  \/ Frame
  \/ ActivateDay \/ DeactivateDay \/ ToggleDayPause \/ RestartDay
  \/ Unmount

SpecClocks == Init /\ [][ClocksNext]_vars

\* ------------------------------------------------------------ pure harness
Windows == {<<0, RangeScale>>, <<0, 500>>, <<500, RangeScale>>}

TripPool(id) ==
  {MakeTrip(id, s, e, n, 2) : s \in 0..MaxTime, e \in 0..MaxTime, n \in 1..MaxPts}

\* the two-trip scenario: A spans [0,100] with 10 points, B spans [40,90] with 4
ScenarioTrips == <<MakeTrip(1, 0, 100, 10, 2), MakeTrip(2, 40, 90, 4, 2)>>
ScenarioMeta == [minTimestamp |-> 0, maxTimestamp |-> 100]

\* richer paths for the encoder: four waypoint shapes, spans within 0..MaxEncTime
EncPool(id) ==
  {MakeTrip(id, s, e, n, shape) :
     s \in 0..MaxEncTime, e \in 0..MaxEncTime, n \in 2..MaxPts, shape \in 1..4}

PureInit ==
  /\ inTrips = <<>>
  /\ inRange \in Windows
  /\ inMeta = [minTimestamp |-> 0, maxTimestamp |-> MaxTime]
  /\ inReplay = FALSE
  /\ outTrips = <<>>
  /\ outAnimated = <<>>
  /\ stage = "input"
  /\ ClockInit
  /\ CalcIdle

EncInit ==
  /\ inTrips = <<>>
  /\ inRange = <<0, RangeScale>>
  /\ inMeta = [minTimestamp |-> 0, maxTimestamp |-> MaxTime]
  /\ inReplay \in BOOLEAN
  /\ outTrips = <<>>
  /\ outAnimated = <<>>
  /\ stage = "input"
  /\ ClockInit
  /\ CalcIdle

AddTrip ==
  /\ stage = "input"
  /\ Len(inTrips) < MaxTrips
  /\ inMeta # ScenarioMeta
  /\ \E trip \in TripPool(Len(inTrips) + 1) : inTrips' = Append(inTrips, trip)
  /\ UNCHANGED <<inRange, inMeta, inReplay, outTrips, outAnimated, stage, clockVars, calcVars>>

LoadScenario ==
  /\ stage = "input"
  /\ inTrips = <<>>
  /\ inRange = <<0, RangeScale>>
  /\ inTrips' = ScenarioTrips
  /\ inMeta' = ScenarioMeta
  /\ UNCHANGED <<inRange, inReplay, outTrips, outAnimated, stage, clockVars, calcVars>>

Filter ==
  /\ stage = "input"
  /\ outTrips' = timeFilteredTrips(inTrips, inRange, inMeta.minTimestamp, inMeta.maxTimestamp)
  /\ stage' = "filtered"
  /\ UNCHANGED <<inTrips, inRange, inMeta, inReplay, outAnimated, clockVars, calcVars>>

AddEncTrip ==
  /\ stage = "input"
  /\ Len(inTrips) < MaxEncTrips
  /\ \E trip \in EncPool(Len(inTrips) + 1) : inTrips' = Append(inTrips, trip)
  /\ UNCHANGED <<inRange, inMeta, inReplay, outTrips, outAnimated, stage, clockVars, calcVars>>

Encode ==
  /\ stage = "filtered"
  /\ outAnimated' = animatedTrips(outTrips, inReplay)
  /\ stage' = "encoded"
  /\ UNCHANGED <<inTrips, inRange, inMeta, inReplay, outTrips, clockVars, calcVars>>

SanNext == AddTrip \/ LoadScenario \/ Filter

SpecSan == PureInit /\ [][SanNext]_vars

EncNext == AddEncTrip \/ Filter \/ Encode

SpecEnc == EncInit /\ [][EncNext]_vars

\* the harness of the grid aggregation
GridInit ==
  /\ points = <<>>
  /\ cellSize \in CellSizes
  /\ cells = aggregateToGrid(<<>>, cellSize)
  /\ ColorIdle
  /\ StatsIdle
  /\ PureIdle
  /\ ClockInit

\* the visits change and the grid is aggregated anew
Aggregate ==
  /\ Len(points) < MaxGridPts
  /\ \E point \in PointPool :
       /\ points' = Append(points, point)
       /\ cells' = aggregateToGrid(points', cellSize)
  /\ UNCHANGED <<cellSize, colorVars, statsVars, tripVars, clockVars>>

GridNext == Aggregate

SpecGrid == GridInit /\ [][GridNext]_vars


\* ------------------------------------------------- claims: playback clocks
Pending(clock) == {e \in rafQueue : e.clock = clock}

\* C1: pause/resume of the range-scrub clock.  After start(), frames up to a
\* progress p, pause() and start() again, the clock is Running with the
\* progress still p, and the first frame after the resume emits
\* min(p + time since the resume, 1): at least p, never reset to 0, and with
\* none of the time spent paused added (while the page is mounted).
C1_ResumeKeepsProgress ==
  /\ (phase = "ready" /\ hist.cmd = "resume" /\ hist.frames = 0 /\ animationStartRange # Null)
       => /\ animating
          /\ animationProgress = hist.mark
          /\ \E e \in Pending("app") : e.startTime = hist.at - hist.mark
  /\ (hist.cmd = "resume" /\ hist.frames = 1)
       => /\ animationProgress >= hist.mark
          /\ animationProgress = Min(hist.mark + (hist.seen - hist.at), AppDuration)

\* a first frame after a resume from a progress strictly between 0 and 1 that
\* followed a pause of positive length
C1_Witness ==
  /\ hist.cmd = "resume"
  /\ hist.frames = 1
  /\ hist.mark > 0
  /\ hist.at > hist.since
  /\ animationProgress = hist.mark + TickMs
  /\ animationProgress < AppDuration

\* C2: restart() of the range-scrub clock in any state leaves the clock
\* Running (animating, a frame callback pending) with progress 0, and the
\* first frame after it emits the progress measured from the restart:
\* min(time since the restart, 1) (while the page is mounted).
C2_RestartFromZero ==
  /\ (phase = "ready" /\ hist.cmd = "restart" /\ hist.frames = 0)
       => animating /\ animationProgress = 0 /\ Pending("app") # {}
  /\ (hist.cmd = "restart" /\ hist.frames = 1)
       => animationProgress = Min(hist.seen - hist.at, AppDuration)

\* C3: after stop() the range-scrub clock is Idle with no captured range and
\* progress 0, and the start() that follows captures the TimeWindow current at
\* that start() and begins from progress 0.
C3_StopThenStart ==
  /\ hist.cmd = "stop"
       => /\ ~animating
          /\ animationStartRange = Null
          /\ animationProgress = 0
          /\ Pending("app") = {}
  /\ (hist.cmd = "start" /\ hist.afterStop /\ hist.frames = 0)
       => /\ animating
          /\ animationStartRange = hist.window
          /\ animationProgress = 0

\* C4: the progress of the range-scrub clock is always within [0, 1]
\* (0..AppDuration in ms), and once a frame has computed progress 1 the clock
\* is no longer Running and has no frame callback pending.
C4_ProgressBounded ==
  /\ animationProgress >= 0
  /\ animationProgress <= AppDuration
  /\ (animationProgress = AppDuration /\ hist.frames >= 1)
       => ~animating /\ Pending("app") = {}

\* a frame has computed progress 1, the window has reached the captured end
C4_Witness ==
  /\ animationProgress = AppDuration
  /\ hist.frames >= 1
  /\ ~animating
  /\ animationStartRange # Null
  /\ timeRange = <<animationStartRange[1],
                   Max(animationStartRange[1] + MinWindow, animationStartRange[2])>>

C5_Discipline ==
  /\ \A c \in {"app", "trips", "day"} : Cardinality(Pending(c)) <= 1
  /\ ~animating => Pending("app") = {}
  /\ ~(dayReplayActive /\ ~isPaused) => Pending("day") = {}
  /\ ~ShouldAnimate(Cur) => Pending("trips") = {}
  /\ phase = "unmounted" => rafQueue = {}

C5_Quiet ==
  now' # now =>
    /\ ~animating => animationProgress' = animationProgress /\ timeRange' = timeRange
    /\ ~(dayReplayActive /\ ~isPaused) => progress' = progress
    /\ ~ShouldAnimate(Cur) => tripsTime' = tripsTime

C5_WitnessHalted ==
  /\ hist.cmd = "pause"
  /\ animationProgress > 0
  /\ dayReplayActive
  /\ isPaused
  /\ progress > 0
  /\ Pending("app") = {}
  /\ Pending("day") = {}

\* ------------------------------------------------- TripSanitizer properties
\* the notions the properties are stated in, taken from the trips' spans
SpanDuration(trip) == IF TripEnd(trip) = TripStart(trip) THEN 1 ELSE TripEnd(trip) - TripStart(trip)

SpanOverlap(a, b) ==
  LET lo == IF TripStart(a) >= TripStart(b) THEN TripStart(a) ELSE TripStart(b)
      hi == IF TripEnd(a) <= TripEnd(b) THEN TripEnd(a) ELSE TripEnd(b)
  IN IF hi > lo THEN hi - lo ELSE 0

\* the ratio overlap / duration is above 0.5 (a ratio with a negative duration is not)
SpanRatioOverHalf(a, b) ==
  \/ SpanDuration(a) > 0 /\ 2 * SpanOverlap(a, b) > SpanDuration(a)
  \/ SpanDuration(b) > 0 /\ 2 * SpanOverlap(a, b) > SpanDuration(b)

IntersectsWindow(trip) ==
  /\ TripEnd(trip) * RangeScale >= inMeta.minTimestamp * RangeScale
                                   + (inMeta.maxTimestamp - inMeta.minTimestamp) * inRange[1]
  /\ TripStart(trip) * RangeScale <= inMeta.minTimestamp * RangeScale
                                     + (inMeta.maxTimestamp - inMeta.minTimestamp) * inRange[2]

\* the input trips that pass steps 1 and 2 (ids are input positions)
Survivors == {i \in 1..Len(inTrips) : Len(inTrips[i].path) >= 2 /\ IntersectsWindow(inTrips[i])}

OutIds == {outTrips[k].id : k \in 1..Len(outTrips)}

\* the trip of an overlapping pair that the pair rule prefers: more points,
\* then the earlier start, then the earlier position in the input
Preferred(i, j) ==
  LET a == inTrips[i]
      b == inTrips[j]
  IN IF Len(a.path) # Len(b.path) THEN (IF Len(a.path) > Len(b.path) THEN i ELSE j)
     ELSE IF TripStart(a) # TripStart(b) THEN (IF TripStart(a) < TripStart(b) THEN i ELSE j)
     ELSE IF i < j THEN i ELSE j

\* i is an acceptable winner of the pair {i, j}: no fewer points, and on equal
\* point counts a start that is not later
AcceptableWinner(i, j) ==
  LET a == inTrips[i]
      b == inTrips[j]
  IN \/ Len(a.path) > Len(b.path)
     \/ Len(a.path) = Len(b.path) /\ TripStart(a) <= TripStart(b)

\* C6: the sanitized output never contains two distinct trips whose span
\* overlap is above 50% of the duration of either (zero duration counted as 1)
C6_NoOverlappingSurvivors ==
  stage = "filtered" =>
    \A k, l \in 1..Len(outTrips) : k # l => ~SpanRatioOverHalf(outTrips[k], outTrips[l])

\* C6 witness: an overlapping pair was in the window, and two trips survive
C6_Witness ==
  /\ stage = "filtered"
  /\ Len(outTrips) >= 2
  /\ \E i, j \in Survivors : i # j /\ SpanRatioOverHalf(inTrips[i], inTrips[j])

\* C7 as stated: of every overlapping pair of window-surviving trips the output
\* holds exactly one, the one with more points (tie: the earlier-starting one)
C7_PairRuleAsStated ==
  stage = "filtered" =>
    \A i, j \in Survivors :
      (i # j /\ SpanRatioOverHalf(inTrips[i], inTrips[j])) =>
        \/ i \in OutIds /\ j \notin OutIds /\ AcceptableWinner(i, j)
        \/ j \in OutIds /\ i \notin OutIds /\ AcceptableWinner(j, i)

\* C7 amended: of an overlapping pair the output never holds both; and when the
\* preferred trip of the pair overlaps no third window-surviving trip by more
\* than half, the output holds exactly the preferred trip of the pair
C7_PairRuleAmended ==
  stage = "filtered" =>
    \A i, j \in Survivors :
      (i # j /\ SpanRatioOverHalf(inTrips[i], inTrips[j])) =>
        /\ ~(i \in OutIds /\ j \in OutIds)
        /\ LET w == Preferred(i, j)
               l == IF w = i THEN j ELSE i
           IN (\A k \in Survivors \ {i, j} : ~SpanRatioOverHalf(inTrips[w], inTrips[k]))
                => (w \in OutIds /\ l \notin OutIds)

\* C7 witness: three window-surviving trips, an overlapping pair whose preferred
\* trip overlaps no third one, sanitized
C7_Witness ==
  /\ stage = "filtered"
  /\ Cardinality(Survivors) >= 3
  /\ \E i, j \in Survivors :
       /\ i # j /\ SpanRatioOverHalf(inTrips[i], inTrips[j])
       /\ \A k \in Survivors \ {i, j} : ~SpanRatioOverHalf(inTrips[Preferred(i, j)], inTrips[k])
       /\ Preferred(i, j) \in OutIds

\* C8: two trips of at least 2 points in the window that overlap by more than
\* half: the output is exactly the one with more points (tie: the one that
\* starts no later); the scenario A [0,100] x10, B [40,90] x4 yields only A
C8_TwoTripCase ==
  stage = "filtered" =>
    /\ (Len(inTrips) = 2 /\ Survivors = {1, 2} /\ SpanRatioOverHalf(inTrips[1], inTrips[2])) =>
         \E w \in {1, 2} : outTrips = <<inTrips[w]>> /\ AcceptableWinner(w, 3 - w)
    /\ inTrips = ScenarioTrips => outTrips = <<ScenarioTrips[1]>>

\* C8 witness: the scenario has been sanitized
C8_Witness == stage = "filtered" /\ inTrips = ScenarioTrips /\ Len(outTrips) = 1

\* C9: every output trip is an input trip of at least 2 points that intersects
\* the window; the output is ordered by start time; an input trip of at least
\* 2 points in the window that overlaps no other input trip is in the output
C9_WindowFilter ==
  stage = "filtered" =>
    /\ \A k \in 1..Len(outTrips) :
         /\ outTrips[k].id \in 1..Len(inTrips)
         /\ inTrips[outTrips[k].id] = outTrips[k]
         /\ Len(outTrips[k].path) >= 2
         /\ IntersectsWindow(outTrips[k])
    /\ \A k \in 1..(Len(outTrips) - 1) : TripStart(outTrips[k]) <= TripStart(outTrips[k + 1])
    /\ \A i \in Survivors :
         (\A j \in (1..Len(inTrips)) \ {i} : SpanOverlap(inTrips[i], inTrips[j]) = 0)
           => i \in OutIds

\* C9 witness: a one-point trip and a trip outside the window were dropped and
\* a trip that overlaps no other input trip was kept
C9_Witness ==
  /\ stage = "filtered"
  /\ \E i \in 1..Len(inTrips) : Len(inTrips[i].path) < 2
  /\ \E i \in 1..Len(inTrips) : Len(inTrips[i].path) >= 2 /\ ~IntersectsWindow(inTrips[i])
  /\ \E i \in Survivors :
       /\ \A j \in (1..Len(inTrips)) \ {i} : SpanOverlap(inTrips[i], inTrips[j]) = 0
       /\ i \in OutIds


\* ----------------------------------------------- TimelineEncoder properties
NonDecreasing(seq) == \A k \in 1..(Len(seq) - 1) : seq[k] <= seq[k + 1]

\* C10: in wall-clock mode and in day-merge mode every path has as many
\* virtual timestamps as points and they never decrease from one to the next
C10_TimestampsMonotonic ==
  stage = "encoded" =>
    \A k \in 1..Len(outAnimated) :
      /\ Len(outAnimated[k].timestamps) = Len(outAnimated[k].path)
      /\ outAnimated[k].den > 0
      /\ NonDecreasing(outAnimated[k].timestamps)

\* C10 witness: a trip whose last timestamp precedes its first was encoded in
\* wall-clock mode, with interpolated points added to its path
C10_Witness ==
  /\ stage = "encoded"
  /\ ~inReplay
  /\ \E k \in 1..Len(outAnimated) :
       /\ TripEnd(outTrips[k]) < TripStart(outTrips[k])
       /\ Len(outAnimated[k].path) > Len(outTrips[k].path)

\* day-merge mode was exercised: two trips merged into one smoothed path
C10_WitnessDayMerge ==
  /\ stage = "encoded"
  /\ inReplay
  /\ Len(outTrips) = 2
  /\ Len(outAnimated) = 1
  /\ Len(outAnimated[1].path) > 4
  /\ outAnimated[1].den > 1

\* C11: every virtual timestamp of every encoded path lies within the loop,
\* 0..LoopLength, in wall-clock mode and in day-merge mode
C11_VirtualTimeBudget ==
  stage = "encoded" =>
    \A k \in 1..Len(outAnimated) :
      \A i \in 1..Len(outAnimated[k].timestamps) :
        /\ 0 <= outAnimated[k].timestamps[i]
        /\ outAnimated[k].timestamps[i] <= LoopLength * outAnimated[k].den

\* the harness of the colour mapper: the bounds a dataset's metadata gives
\* (one of them of zero duration); the layer asks for the colours of the
\* visits in the order of their timestamps, which lie 1 or 2 hundredths of
\* the duration (at least 1 s) apart between the bounds
ColorBounds == {<<0, 100>>, <<100000, 100003>>, <<5, 5>>}

ColorSteps(bounds) ==
  {Max(1, (bounds[2] - bounds[1]) \div 100), Max(1, (bounds[2] - bounds[1]) \div 50)}

\* the colours that getTimeColor returns for the timestamps between the bounds
VisitColors ==
  [bounds \in ColorBounds |->
     [timestamp \in bounds[1]..bounds[2] |-> getTimeColor(timestamp, bounds[1], bounds[2])]]

ColorInit ==
  /\ colorBounds \in ColorBounds
  /\ colorTime = colorBounds[1]
  /\ color = VisitColors[colorBounds][colorTime]
  /\ prevTime = colorTime
  /\ prevColor = color
  /\ GridIdle
  /\ StatsIdle
  /\ PureIdle
  /\ ClockInit

\* getVisitColor / getArcColor: the layer asks for the colour of the next visit
getVisitColor ==
  /\ \E step \in ColorSteps(colorBounds) :
       /\ colorTime + step <= colorBounds[2]
       /\ colorTime' = colorTime + step
       /\ color' = VisitColors[colorBounds][colorTime']
  /\ prevTime' = colorTime
  /\ prevColor' = color
  /\ UNCHANGED <<colorBounds, gridVars, statsVars, tripVars, clockVars>>

ColorNext == getVisitColor

SpecColor == ColorInit /\ [][ColorNext]_vars

\* the harness of the statistics
StatsInit ==
  /\ statsVisits = <<>>
  /\ statsRange \in StatsWindows
  /\ stats = Stats(<<>>, statsRange, StatsMeta)
  /\ GridIdle
  /\ ColorIdle
  /\ PureIdle
  /\ ClockInit

\* the visits change and the statistics are computed anew
Summarize ==
  /\ Len(statsVisits) < MaxVisits
  /\ \E visit \in VisitPool :
       /\ statsVisits' = Append(statsVisits, visit)
       /\ stats' = Stats(statsVisits', statsRange, StatsMeta)
  /\ UNCHANGED <<statsRange, gridVars, colorVars, tripVars, clockVars>>

StatsNext == Summarize

SpecStats == StatsInit /\ [][StatsNext]_vars

\* the input points that fall in the grid cell whose centroid is position
PointsInCell(position) ==
  {i \in 1..Len(points) :
     /\ CellCentre(points[i].coordinates[1], cellSize) = position[1]
     /\ CellCentre(points[i].coordinates[2], cellSize) = position[2]}

RECURSIVE SumCounts(_, _)
SumCounts(seq, n) == IF n = 0 THEN 0 ELSE SumCounts(seq, n - 1) + seq[n].count

NamedEntries(cell) ==
  {i \in 1..Len(cell.locations) : cell.locations[i].name # "Unknown"}

\* C13: in every returned cell the histogram adds up to the count, the top
\* location is a most frequent label other than 'Unknown' with its frequency
\* as topLocationCount, and a cell with no other label has 'Unknown' and 0
C13_TopLabel ==
  ~cells.raised =>
    \A k \in 1..Len(cells.cells) :
      LET cell == cells.cells[k]
      IN /\ SumCounts(cell.locations, Len(cell.locations)) = cell.count
         /\ cell.topLocationCount <= cell.count
         /\ IF NamedEntries(cell) = {}
            THEN cell.topLocation = "Unknown" /\ cell.topLocationCount = 0
            ELSE \E i \in NamedEntries(cell) :
                   /\ cell.locations[i].name = cell.topLocation
                   /\ cell.locations[i].count = cell.topLocationCount
                   /\ \A j \in NamedEntries(cell) :
                        cell.locations[j].count <= cell.topLocationCount

\* C13 witness: a cell where 'Unknown' is at least as frequent as the named
\* top location, next to a cell with no named label at all
C13_Witness ==
  /\ ~cells.raised
  /\ \E k \in 1..Len(cells.cells) :
       /\ cells.cells[k].topLocation # "Unknown"
       /\ \E i \in 1..Len(cells.cells[k].locations) :
            /\ cells.cells[k].locations[i].name = "Unknown"
            /\ cells.cells[k].locations[i].count >= cells.cells[k].topLocationCount
  /\ \E k \in 1..Len(cells.cells) :
       /\ cells.cells[k].topLocation = "Unknown"
       /\ cells.cells[k].topLocationCount = 0

Rgb(c) == <<c[1], c[2], c[3]>>

\* C14: with minTime < maxTime the colour of minTime is exactly the start
\* anchor (0, 212, 255) and the colour of maxTime exactly the end anchor
\* (255, 200, 20)
C14_Anchors ==
  colorBounds[1] < colorBounds[2] =>
    /\ colorTime = colorBounds[1] =>
         Rgb(color) = <<NumOfInt(0), NumOfInt(212), NumOfInt(255)>>
    /\ colorTime = colorBounds[2] =>
         Rgb(color) = <<NumOfInt(255), NumOfInt(200), NumOfInt(20)>>

NumAbs(x) == IF x.k = "nan" THEN x ELSE [x EXCEPT !.s = 0]

\* the steepest slope of a channel over a segment, per unit of progress:
\* red rises by 147 over the first segment of width 0.33
SteepestSlope == NumDiv(NumOfInt(147), Literal(33, 100))

\* |timestamp - previous timestamp| / (maxTime - minTime)
ProgressDelta ==
  NumDiv(NumOfInt(Abs(colorTime - prevTime)), NumOfInt(colorBounds[2] - colorBounds[1]))

\* what the rounding of the Number operations may add to a channel: 10^-6
RoundingSlack == Literal(1, 1000000)

\* C15: with minTime < maxTime, between two timestamps of [minTime, maxTime]
\* no channel (red, green, blue, alpha) changes by more than the steepest
\* per-segment slope times their distance (up to rounding), also across the
\* segment boundaries 0.33 and 0.66
C15_Continuity ==
  colorBounds[1] < colorBounds[2] =>
    \A i \in 1..4 :
      NumLeq(NumAbs(NumSub(color[i], prevColor[i])),
             NumAdd(NumMul(SteepestSlope, ProgressDelta), RoundingSlack))

\* C16: red, green and blue are within 0..255 and alpha within 230..250
C16_ChannelBounds ==
  /\ \A i \in 1..3 :
       NumLeq(NumOfInt(0), color[i]) /\ NumLeq(color[i], NumOfInt(255))
  /\ NumLeq(NumOfInt(230), color[4]) /\ NumLeq(color[4], NumOfInt(250))

\* C17: also for a dataset of zero duration every ratio is computed with a
\* non-zero denominator and yields a defined finite value: the colour
\* progress and the channels derived from it, and the virtual timestamps
C17_GuardedDenominators ==
  /\ colorBounds[2] - colorBounds[1] # 0
  /\ ColorProgress(colorTime, colorBounds[1], colorBounds[2]).k = "fin"
  /\ \A i \in 1..4 : color[i].k = "fin"
  /\ \A k \in 1..Len(outAnimated) : outAnimated[k].den # 0

\* the visits inside the TimeWindow, by their place in the input
WindowVisits ==
  {i \in 1..Len(statsVisits) :
     /\ statsVisits[i].timestamp * RangeScale >=
          StatsMeta.minTimestamp * RangeScale
          + (StatsMeta.maxTimestamp - StatsMeta.minTimestamp) * statsRange[1]
     /\ statsVisits[i].timestamp * RangeScale <=
          StatsMeta.minTimestamp * RangeScale
          + (StatsMeta.maxTimestamp - StatsMeta.minTimestamp) * statsRange[2]}

\* visit i comes before visit j in time (in input order at equal timestamps)
Earlier(i, j) ==
  \/ statsVisits[i].timestamp < statsVisits[j].timestamp
  \/ statsVisits[i].timestamp = statsVisits[j].timestamp /\ i < j

ChronologicallyConsecutive ==
  {pair \in WindowVisits \X WindowVisits :
     /\ Earlier(pair[1], pair[2])
     /\ ~\E k \in WindowVisits : Earlier(pair[1], k) /\ Earlier(k, pair[2])}

HopLength(pair) ==
  Abs(statsVisits[pair[2]].coordinates[2] - statsVisits[pair[1]].coordinates[2])

HopGap(pair) == statsVisits[pair[2]].timestamp - statsVisits[pair[1]].timestamp

RECURSIVE SumHops(_)
SumHops(pairs) ==
  IF pairs = {} THEN 0
  ELSE LET pair == CHOOSE p \in pairs : TRUE
       IN HopLength(pair) + SumHops(pairs \ {pair})

\* km is the sum, in units of 10 m, rounded to a whole km
RoundedTo(km, sum) == 2 * Abs(km * KmUnits - sum) <= KmUnits

\* the scenario: visits on days 0, 1 and 2 whose legs are 100 and 200 km, and
\* after a gap of 10 days a visit 5000 km away
ScenarioVisits ==
  <<MakeVisit(0, 0), MakeVisit(10000, DaySeconds), MakeVisit(30000, 2 * DaySeconds),
    MakeVisit(530000, 12 * DaySeconds)>>

ScenarioHolds ==
  statsVisits = ScenarioVisits /\ statsRange = <<0, RangeScale>> =>
    stats.kilometers = 300

\* C18 as stated: kilometers is the rounded sum of the distances between
\* chronologically consecutive visits inside the TimeWindow, leaving out the
\* pairs more than 7 days apart and the hops exceeding 500 km; the scenario
\* yields the sum of its first two legs
C18_DistanceAsStated ==
  ~stats.raised =>
    /\ RoundedTo(stats.kilometers,
                 SumHops({pair \in ChronologicallyConsecutive :
                            /\ ~(HopGap(pair) > GapDays * DaySeconds)
                            /\ ~(HopLength(pair) > MaxHopDist)}))
    /\ ScenarioHolds

\* C18 amended: the same, leaving out the hops of 500 km or more
C18_DistanceAmended ==
  ~stats.raised =>
    /\ RoundedTo(stats.kilometers,
                 SumHops({pair \in ChronologicallyConsecutive :
                            /\ ~(HopGap(pair) > GapDays * DaySeconds)
                            /\ ~(HopLength(pair) >= MaxHopDist)}))
    /\ ScenarioHolds

\* C18 witness: the statistics of the scenario were computed
C18_Witness ==
  /\ statsVisits = ScenarioVisits
  /\ statsRange = <<0, RangeScale>>
  /\ ~stats.raised
  /\ stats.places = 4

\* C19: a trip of fewer than 2 points and a visit without coordinates are
\* left out of every derived output (sanitized trips, grid cells, statistics)
\* and no operation raises an error because of such a record
C19_MalformedDropped ==
  /\ \A k \in 1..Len(outTrips) : Len(outTrips[k].path) >= 2
  /\ ~cells.raised
  /\ SumCounts(cells.cells, Len(cells.cells))
       = Cardinality({i \in 1..Len(points) : points[i].hasCoordinates})
  /\ ~stats.raised
  /\ stats.places = Cardinality({i \in WindowVisits : statsVisits[i].hasCoordinates})

\* C20: the shared TimeWindow [start, end] always satisfies
\* 0 <= start <= end <= 1
C20_WindowWellFormed ==
  /\ 0 <= timeRange[1]
  /\ timeRange[1] <= timeRange[2]
  /\ timeRange[2] <= RangeScale

\* ------------------------------------------------------ claims: trail clock
\* the trail clock under short frames, with the commands that start and end
\* the range animation and the day replay and a slider that moves the window
TrailNext ==
  \/ LoadOk
  \/ Start \/ Pause
  \/ ActivateDay \/ DeactivateDay
  \/ SetRangeEnd
  \/ ShortFrame

SpecTrail == Init /\ [][TrailNext]_vars

C21_InBudget == tripsTime >= 0 /\ tripsTime < LoopLength

\* the loop period ended within the frame that follows
C21_Wraps ==
  \E e \in Pending("trips") :
    tripsTime * e.duration + (now' - now) * LoopLength >= LoopLength * e.duration

C21_Forward ==
  (now' # now /\ trailSteady /\ trailSteady') => (tripsTime' >= tripsTime \/ C21_Wraps)

\* C21: every virtual time the trail clock emits is within [0, 10000), and
\* while the trail clock stays Running (range animation or day replay
\* active) each emitted value is at least the one before it unless the loop
\* period ended in between; changes of the TimeWindow or of the animated
\* trips during playback do not move the virtual time backwards.
C21_TrailVirtualTime == [](C21_InBudget) /\ [][C21_Forward]_vars

\* C22: the places statistic of a TimeWindow is the number of unique places
\* among the visits whose timestamp lies in the window: several visits to the
\* same place inside the window count once.
C22_UniquePlaces ==
  ~stats.raised =>
    stats.places = Cardinality({statsVisits[i].coordinates : i \in WindowVisits})

\* ------------------------------------------- claims: range-scrub session
\* start() called while the clock is Running changes neither the recorded
\* range nor the progress
C23_StartWhileRunning ==
  animating =>
    /\ startAnimation(Cur).animationStartRange = animationStartRange
    /\ startAnimation(Cur).animationProgress = animationProgress

\* a recorded range changes in no step but a stop(), and a range is recorded
\* only by a start() or restart(), as the TimeWindow current at that command
C23_Step ==
  /\ (animationStartRange # Null /\ hist'.cmd # "stop")
       => animationStartRange' = animationStartRange
  /\ (animationStartRange = Null /\ animationStartRange' # Null)
       => /\ hist'.cmd \in {"start", "resume", "restart"}
          /\ hist'.frames = 0
          /\ animationStartRange' = timeRange

\* C23: start() records the current TimeWindow only when no range is
\* recorded; while a range is recorded, start(), pause(), restart(), clock
\* frames and user changes of the TimeWindow leave it unchanged, start()
\* while Running changes neither the range nor the progress, and only stop()
\* clears the range.
C23_CapturedBoundsStable == [](C23_StartWhileRunning) /\ [][C23_Step]_vars

\* a start() that met a recorded range after frames had run and the user had
\* moved the start of the TimeWindow away from it
C23_Witness ==
  /\ hist.cmd = "resume"
  /\ animating
  /\ animationStartRange # Null
  /\ animationProgress > 0
  /\ timeRange[1] # animationStartRange[1]

\* --------------------------------------------------- PathSmoother properties
\* the waypoints handed to smoothPath by the day merge, and what it returned
SmoothInput == ConcatCoords(SortByStart(outTrips))
SmoothOutput == outAnimated[1].path

Smoothed == stage = "encoded" /\ inReplay /\ Len(outTrips) > 0

\* waypoints k..n are found in the output from position pos on, in order,
\* each 8 to 20 steps after the one before, the last at the end
RECURSIVE WaypointsFrom(_, _)
WaypointsFrom(k, pos) ==
  /\ SmoothOutput[pos] = SmoothInput[k]
  /\ IF k = Len(SmoothInput) THEN pos = Len(SmoothOutput)
     ELSE \E steps \in 8..20 :
            /\ pos + steps <= Len(SmoothOutput)
            /\ WaypointsFrom(k + 1, pos + steps)

\* C24: for n >= 3 input points each of the n - 1 segments receives between
\* 8 and 20 interpolation steps, so the output length L satisfies
\* 8(n-1)+1 <= L <= 20(n-1)+1; every input waypoint is in the output in its
\* original order, the first and last output points being the first and last
\* input points; fewer than 3 points are returned unchanged.
C24_SmootherDensity ==
  Smoothed =>
    LET n == Len(SmoothInput)
        len == Len(SmoothOutput)
    IN IF n >= 3
       THEN /\ 8 * (n - 1) + 1 <= len
            /\ len <= 20 * (n - 1) + 1
            /\ SmoothOutput[1] = SmoothInput[1]
            /\ SmoothOutput[len] = SmoothInput[n]
            /\ WaypointsFrom(1, 1)
       ELSE SmoothOutput = SmoothInput

\* a smoothed path of at least 3 waypoints with a segment of 20 steps and
\* one of fewer
C24_Witness ==
  /\ Smoothed
  /\ Len(SmoothInput) >= 3
  /\ Len(SmoothOutput) > 8 * (Len(SmoothInput) - 1) + 1
  /\ Len(SmoothOutput) < 20 * (Len(SmoothInput) - 1) + 1
  /\ \E k \in 1..(Len(SmoothInput) - 1) :
       haversineDistance(SmoothInput[k], SmoothInput[k + 1]) > 20 * SplineStepDist

\* a path of two waypoints came back as it was
C24_WitnessShort ==
  /\ Smoothed
  /\ Len(SmoothInput) = 2
  /\ SmoothOutput = SmoothInput

\* ------------------------------------------------------ claims: day replay
\* the day replay under short frames, with the controls of its panel
DayNext ==
  \/ LoadOk
  \/ ActivateDay \/ DeactivateDay
  \/ ToggleDayPause \/ RestartDay
  \/ ShortFrame

SpecDay == Init /\ [][DayNext]_vars

\* the distance of two instants of a loop of the given period
LoopDistance(a, b, period) == Min((a - b) % period, (b - a) % period)

\* the virtual time of the trail as an instant of the 15 s loop, in ms
TrailInstant(virtualTime) == (virtualTime * TrailDayDuration) \div LoopLength

\* a frame in which the panel clock and the trail clock both emit leaves
\* them at most one frame apart
C25_Step ==
  (/\ now' # now
   /\ dayReplayActive /\ dayReplayActive'
   /\ Pending("day") # {}
   /\ Pending("trips") # {})
    => LoopDistance(progress', TrailInstant(tripsTime'), DayDuration) <= now' - now

\* C25: while day replay is active the progress fraction of the panel
\* (15 s loop) and the virtual time of the map trail divided by 10000 (15 s
\* loop) stay equal up to one frame, after any sequence of activation,
\* pause, resume and restart of the day replay.
C25_ClocksSynced == [][C25_Step]_vars

\* the frame after a restart writes the time since the restart
C29_Step ==
  (/\ now' # now
   /\ DayPanelShown /\ DayPanelShown'
   /\ ~isPaused
   /\ progress = 0)
    => progress' = (now' - now) % DayDuration

\* the panel clock runs whenever its progress is 0 and it is not paused
C29_Running == (DayPanelShown /\ ~isPaused /\ progress = 0) => Pending("day") # {}

\* C29: the restart control of the day-replay panel sets its progress to 0
\* and leaves the clock running from 0, whether the panel clock was paused or
\* running: the progress written by the next frame is the time since the
\* restart.
C29_RestartFromZero == [](C29_Running) /\ [][C29_Step]_vars

\* C26: in every reachable state in which the range-scrub clock is Running
\* (animating) a captured animation range is recorded, for every sequence of
\* start, pause, restart and stop and every dataset, one without visits or
\* metadata (failed load) included.
C26_RunningHasRange == animating => animationStartRange # Null

\* C27: every trip of at least 2 points that intersects the window and is
\* absent from the sanitized output overlaps, by more than 50% of its own or
\* the other's duration, some trip that is present in the output and has at
\* least as many path points.
C27_DiscardHasWitness ==
  stage = "filtered" =>
    \A i \in Survivors \ OutIds :
      \E k \in 1..Len(outTrips) :
        /\ SpanRatioOverHalf(inTrips[i], outTrips[k])
        /\ Len(outTrips[k].path) >= Len(inTrips[i].path)

\* ------------------------------------------- claims: play after completion
\* the range-scrub clock followed past its completion, with the slider that
\* moves the end of the TimeWindow
FinishNext ==
  \/ LoadOk
  \/ Start \/ Pause \/ Restart \/ Stop
  \/ SetRangeEnd
  \/ LongFrame

SpecFinish == Init /\ [][FinishNext]_vars

\* the clock has halted at progress 1
Completed == ~animating /\ animationStartRange # Null /\ animationProgress = AppDuration

C28_Step ==
  \* start() from the completed state
  /\ (Completed /\ animating' /\ hist'.cmd \in {"start", "resume"})
       => /\ animationProgress' = AppDuration
          /\ animationStartRange' = animationStartRange
          /\ Pending("app")' # {}
  \* the first frame after it
  /\ (animating /\ animationProgress = AppDuration /\ now' # now)
       => ~animating' /\ animationProgress' = AppDuration /\ Pending("app")' = {}
  \* the ways to a progress below 1
  /\ (animationProgress = AppDuration /\ animationProgress' < AppDuration)
       => hist'.cmd \in {"restart", "stop"} /\ hist'.frames = 0

\* C28: once the range-scrub clock has halted at progress 1, start()
\* neither resets the progress nor records the range anew; the clock is
\* Running again at progress 1 and halts again on its first frame, so that
\* from the completed state only restart() or stop() followed by start()
\* lead to a progress below 1.
C28_PlayAfterCompletion == [][C28_Step]_vars

\* the clock was started from the completed state while the TimeWindow
\* differed from the recorded range, and its first frame halted it again
C28_Witness ==
  /\ hist.cmd = "start"
  /\ hist.frames = 1
  /\ Completed
  /\ hist.window # animationStartRange

\* ------------------------------------- claims: TimeWindow during day replay
\* the activation of the day replay writes the window of the selected day
C30_Activation == (~DayPanelShown /\ DayPanelShown') => timeRange' = DayWindow(Cur)'

\* no frame changes the TimeWindow while the day replay is active
C30_Frames == (DayPanelShown /\ DayPanelShown' /\ now' # now) => timeRange' = timeRange

\* C30: from the activation of the day replay until its deactivation the
\* TimeWindow stays the window written at the activation (the first to the
\* last visit of the day, padded by one hour on each side and clamped to
\* [0, 1]); the frames of a Running range-scrub clock do not overwrite it.
C30_SingleWriter == [][C30_Activation /\ C30_Frames]_vars

====
